---- MODULE Spec2Model ----
(***************************************************************************)
(* Rollback application of the fractal-tree engine (src/ft/roll.cc): the   *)
(* commit-side and abort-side function of every rollback entry kind and    *)
(* the rollinclude walker over a spliced chain of rollback log nodes.      *)
(*                                                                         *)
(* Every function of roll.cc is an operator from a world (the txn, the     *)
(* logger, the cachetable, the trees, the rollback log nodes, and the      *)
(* record of what the call did) to the world after it.  An assertion that  *)
(* fails aborts the process: the world is left as it was at the assertion, *)
(* with crashed set, and nothing runs afterwards.                          *)
(***************************************************************************)
EXTENDS Integers, Sequences, FiniteSets, TLC

VARIABLES
    txn,            \* TOKUTXN: for_recovery, do_fsync_lsn, xids, open_fts, spilled_head, spilled_tail
    fsynced_lsn,    \* txn->logger: the LSN up to which the recovery log is fsynced
    cachefiles,     \* txn->logger->ct: per FILENUM, present and unlink_on_close
    fts,            \* per FILENUM the FT: checkpoint_lsn, msgs at the root, descriptor, root_xid_that_created
    rollback_logs,  \* per BLOCKNUM the ROLLBACK_LOG_NODE: txnid, sequence, previous, entries, pins, removed
    calls,          \* the calls the last entry function made into its collaborators, in order
    applied,        \* the items the last walk handed to func, in order
    ret,            \* the int the last entry function returned
    crashed,        \* an assertion failed: the process is gone
    last            \* the entry function called, with its arguments (op "none" before the call)

\* The read-view registry of the row-store engine (src/storage/innobase/read/read0read.cc)
VARIABLES
    srv_read_only_mode,  \* the server was started read-only: no view is ever opened
    max_trx_id,          \* trx_sys.get_max_trx_id(): the smallest id not yet handed out
    rw_trx_ids,          \* trx_sys.rw_trx_ids: the ids of the active read-write trxs, ascending
    serialisation_list,  \* trx_sys.serialisation_list: the committing trxs, by trx->no
    trxs,                \* per trx_t: id (0: none), no (0: none), autocommit non-locking or not
    views,               \* per trx_t its read_view (a ReadView)
    m_views,             \* MVCC::m_views: the registered views, head first
    purge_view,          \* the view purge clones into
    pc,                  \* per trx, and at 0 for purge: where its lock-free step stands
    prepared,            \* per trx, and at 0 for purge: what trx_sys held when its view was last filled,
                         \* and whether the view was opened again on the fast path since
    window               \* per trx: the ids handed out between its fast-path check and set_open

\* A ReadView::ids_t on its own (read0read.cc:218-320)
VARIABLES
    m_ids,               \* the elements of the array, m_ptr[0 .. m_size - 1]
    m_reserved,          \* ids_t::m_reserved: the capacity of the array
    ids_start,           \* what the array held before the calls
    inserted,            \* the values the calls put in, in call order
    outside              \* a write was addressed outside the reserved storage of the array

vecVars == <<m_ids, m_reserved, ids_start, inserted, outside>>

traVars == <<txn, fsynced_lsn, cachefiles, fts, rollback_logs, calls, applied, ret, crashed, last>>

mvccVars == <<srv_read_only_mode, max_trx_id, rw_trx_ids, serialisation_list, trxs, views,
              m_views, purge_view, pc, prepared, window>>

vars == <<txn, fsynced_lsn, cachefiles, fts, rollback_logs, calls, applied, ret, crashed, last,
          srv_read_only_mode, max_trx_id, rw_trx_ids, serialisation_list, trxs, views,
          m_views, purge_view, pc, prepared, window,
          m_ids, m_reserved, ids_start, inserted, outside>>

-----------------------------------------------------------------------------
(* Bounds of the model *)

MaxLsn == 2
MaxNodes == 2
MaxEntries == 3
MaxTrx == 2
MaxTrxId == 4
MaxIds == 4

(* Program constants *)

TOKU_DO_COMMIT_CMD_INSERT == 0
TOKU_DO_COMMIT_CMD_DELETE == 1
TOKU_DO_COMMIT_CMD_UPDATE == 0
ENOENT == 2
ROLLBACK_NONE == 0
ZERO_MSN == 0
MIN_TRX_IDS == 32

(* The read-view registry before any trx has run *)

Trxs == 1 .. MaxTrx

\* ReadView::ReadView(): nothing in the snapshot, neither open nor registered
ReadView0 ==
    [creator_trx_id |-> 0, low_limit_id |-> 0, low_limit_no |-> 0, up_limit_id |-> 0,
     ids |-> <<>>, open |-> FALSE, registered |-> FALSE]

\* What a view remembers of the call that last filled it (how "none": never filled)
Prepared0 ==
    [how |-> "none", max_trx_id |-> 0, rw_trx_ids |-> <<>>, serialisation_list |-> <<>>,
     from |-> ReadView0, reused |-> FALSE]

\* An ids_t as constructed: no storage, no element
VecAtRest ==
    /\ m_ids = <<>>
    /\ m_reserved = 0
    /\ ids_start = <<>>
    /\ inserted = <<>>
    /\ outside = FALSE

MvccAtRest ==
    /\ srv_read_only_mode = FALSE
    /\ max_trx_id = 1
    /\ rw_trx_ids = <<>>
    /\ serialisation_list = <<>>
    /\ trxs = [t \in Trxs |-> [id |-> 0, no |-> 0, autocommit_non_locking |-> FALSE]]
    /\ views = [t \in Trxs |-> ReadView0]
    /\ m_views = <<>>
    /\ purge_view = ReadView0
    /\ pc = [t \in 0 .. MaxTrx |-> "idle"]
    /\ prepared = [t \in 0 .. MaxTrx |-> Prepared0]
    /\ window = [t \in Trxs |-> {}]

FileIds == {7, 9}
Keys == {"a", "b"}
nullkey == ""
NoData == "null"
Descriptors == {"d0", "d1"}
Lsns == 0 .. MaxLsn
XidStacks == {<<3>>, <<3, 4>>}

-----------------------------------------------------------------------------
(* The world an entry function runs in, and what it leaves behind *)

World ==
    [txn |-> txn, fsynced_lsn |-> fsynced_lsn, cachefiles |-> cachefiles, fts |-> fts,
     rollback_logs |-> rollback_logs, calls |-> <<>>, applied |-> <<>>, ret |-> 0,
     crashed |-> FALSE]

Install(s) ==
    /\ txn' = s.txn
    /\ fsynced_lsn' = s.fsynced_lsn
    /\ cachefiles' = s.cachefiles
    /\ fts' = s.fts
    /\ rollback_logs' = s.rollback_logs
    /\ calls' = s.calls
    /\ applied' = s.applied
    /\ ret' = s.ret
    /\ crashed' = s.crashed
    /\ UNCHANGED mvccVars
    /\ UNCHANGED vecVars

\* assert(e) with e false: abort()
AssertFail(s) == [s EXCEPT !.crashed = TRUE]

Return(s, r) == [s EXCEPT !.ret = r]

\* A call into a collaborator, recorded with the fsynced LSN of the log at that moment
Call(s, c) == [s EXCEPT !.calls = Append(@, [c EXCEPT !.fsynced = s.fsynced_lsn])]

CallRec(fn, filenum) ==
    [fn |-> fn, filenum |-> filenum, new_filenum |-> 0, blocknum |-> 0, lsn |-> 0, msg |-> <<>>,
     promote |-> FALSE, fsynced |-> 0]

-----------------------------------------------------------------------------
(* Collaborators of roll.cc, by the interface roll.cc uses *)

toku_cachefile_of_filenum(s, filenum) ==
    IF s.cachefiles[filenum].present THEN 0 ELSE ENOENT

toku_logger_fsync_if_lsn_not_fsynced(s, lsn) ==
    LET s1 == Call(s, [CallRec("toku_logger_fsync_if_lsn_not_fsynced", 0) EXCEPT !.lsn = lsn])
    IN  [s1 EXCEPT !.fsynced_lsn = IF @ < lsn THEN lsn ELSE @]

toku_cachefile_is_unlink_on_close(s, filenum) == s.cachefiles[filenum].unlink_on_close

toku_cachefile_unlink_on_close(s, filenum) ==
    LET s1 == Call(s, CallRec("toku_cachefile_unlink_on_close", filenum))
    IN  [s1 EXCEPT !.cachefiles[filenum].unlink_on_close = TRUE]

\* The cachefile of an iname; the iname of a file is named by its FILENUM
toku_cachefile_of_iname_in_env(s, iname) ==
    IF s.cachefiles[iname].present THEN 0 ELSE ENOENT

\* unlink(2) of the file's path: the call is made, the file system decides the errno
unlink(s, iname) == Call(s, CallRec("unlink", iname))

\* The engine's redirect back from new to old: the call is made, the engine decides the result
toku_dictionary_redirect_abort(s, old_filenum, new_filenum) ==
    Call(s, [CallRec("toku_dictionary_redirect_abort", old_filenum) EXCEPT !.new_filenum = new_filenum])

toku_ft_checkpoint_lsn(s, filenum) == s.fts[filenum].checkpoint_lsn

toku_txn_get_xids(s) == s.txn.xids

toku_xids_get_outermost_xid(xids) == xids[1]

toku_ft_root_put_msg(s, filenum, msg, promote) ==
    LET s1 == Call(s, [CallRec("toku_ft_root_put_msg", filenum) EXCEPT !.msg = msg, !.promote = promote])
    IN  [s1 EXCEPT !.fts[filenum].msgs = Append(@, msg)]

toku_reset_root_xid_that_created(s, filenum, xid) ==
    [s EXCEPT !.fts[filenum].root_xid_that_created = xid]

toku_ft_update_descriptor(s, filenum, d) ==
    LET s1 == Call(s, CallRec("toku_ft_update_descriptor", filenum))
    IN  [s1 EXCEPT !.fts[filenum].descriptor = d]

\* txn->open_fts.find_zero<FILENUM, find_ft_from_filenum>: TRUE when an FT of that filenum is open
find_ft_from_filenum(s, filenum) == filenum \in s.txn.open_fts

ft_msg(key, val, type, msn, xids) ==
    [type |-> type, key |-> key, val |-> val, msn |-> msn, xids |-> xids]

-----------------------------------------------------------------------------
(* roll.cc: file lifecycle entries *)

\* Mutant: the cachefile is marked before the log is fsynced
toku_commit_fdelete_mark_first(s, filenum, oplsn) ==
    IF toku_cachefile_of_filenum(s, filenum) = ENOENT
    THEN IF s.txn.for_recovery THEN Return(s, 0) ELSE AssertFail(s)
    ELSE LET s1 == toku_cachefile_unlink_on_close(s, filenum)
             s2 == toku_logger_fsync_if_lsn_not_fsynced(s1, s.txn.do_fsync_lsn)
         IN  Return(s2, 0)

\* Mutant: a missing cachefile is passed over without the assertion
toku_commit_fdelete_no_assert(s, filenum, oplsn) ==
    IF toku_cachefile_of_filenum(s, filenum) = ENOENT
    THEN Return(s, 0)
    ELSE LET s1 == toku_logger_fsync_if_lsn_not_fsynced(s, s.txn.do_fsync_lsn)
             s2 == toku_cachefile_unlink_on_close(s1, filenum)
         IN  Return(s2, 0)

toku_commit_fdelete(s, filenum, oplsn) ==
    IF toku_cachefile_of_filenum(s, filenum) = ENOENT
    THEN IF s.txn.for_recovery THEN Return(s, 0) ELSE AssertFail(s)
    ELSE LET s1 == toku_logger_fsync_if_lsn_not_fsynced(s, s.txn.do_fsync_lsn)
             s2 == toku_cachefile_unlink_on_close(s1, filenum)
         IN  Return(s2, 0)

toku_rollback_fdelete(s, filenum, oplsn) == Return(s, 0)

toku_commit_fcreate(s, filenum, oplsn) == Return(s, 0)

toku_rollback_fcreate(s, filenum, oplsn) ==
    IF toku_cachefile_of_filenum(s, filenum) = ENOENT
    THEN Return(s, 0)
    ELSE Return(toku_cachefile_unlink_on_close(s, filenum), 0)

\* Mutant: the old cachefile is marked without the look at its mark
toku_commit_load_mark_always(s, old_filenum, oplsn) ==
    IF toku_cachefile_of_filenum(s, old_filenum) = ENOENT
    THEN IF s.txn.for_recovery THEN Return(s, 0) ELSE AssertFail(s)
    ELSE Return(toku_cachefile_unlink_on_close(
                    toku_logger_fsync_if_lsn_not_fsynced(s, s.txn.do_fsync_lsn), old_filenum), 0)

toku_commit_load(s, old_filenum, oplsn) ==
    IF toku_cachefile_of_filenum(s, old_filenum) = ENOENT
    THEN IF s.txn.for_recovery THEN Return(s, 0) ELSE AssertFail(s)
    ELSE LET s1 == toku_logger_fsync_if_lsn_not_fsynced(s, s.txn.do_fsync_lsn)
             s2 == IF ~toku_cachefile_is_unlink_on_close(s1, old_filenum)
                   THEN toku_cachefile_unlink_on_close(s1, old_filenum)
                   ELSE s1
         IN  Return(s2, 0)

\* Mutant: the direct unlink must succeed, a missing path is fatal as well
toku_rollback_load_strict_unlink(s, new_iname, unlink_errno, oplsn) ==
    IF toku_cachefile_of_iname_in_env(s, new_iname) = ENOENT
    THEN LET s1 == unlink(s, new_iname)
         IN  IF unlink_errno = 0 THEN Return(s1, 0) ELSE AssertFail(s1)
    ELSE Return(toku_cachefile_unlink_on_close(s, new_iname), 0)

\* unlink_errno: 0 when unlink() returns 0, else the errno it leaves
toku_rollback_load(s, new_iname, unlink_errno, oplsn) ==
    IF toku_cachefile_of_iname_in_env(s, new_iname) = ENOENT
    THEN LET s1 == unlink(s, new_iname)
         IN  IF unlink_errno = 0 \/ unlink_errno = ENOENT THEN Return(s1, 0) ELSE AssertFail(s1)
    ELSE Return(toku_cachefile_unlink_on_close(s, new_iname), 0)

toku_commit_hot_index(s, oplsn) == Return(s, 0)

toku_rollback_hot_index(s, oplsn) == Return(s, 0)

toku_commit_dictionary_redirect(s, old_filenum, new_filenum, oplsn) == Return(s, 0)

\* redirect_r: what toku_dictionary_redirect_abort returns
toku_rollback_dictionary_redirect(s, old_filenum, new_filenum, redirect_r, oplsn) ==
    IF s.txn.for_recovery THEN Return(s, 0)
    ELSE IF toku_cachefile_of_filenum(s, new_filenum) # 0 THEN AssertFail(s)
    ELSE IF toku_cachefile_of_filenum(s, old_filenum) # 0 THEN AssertFail(s)
    ELSE LET s1 == toku_dictionary_redirect_abort(s, old_filenum, new_filenum)
         IN  IF redirect_r # 0 THEN AssertFail(Return(s1, redirect_r)) ELSE Return(s1, 0)

-----------------------------------------------------------------------------
(* roll.cc: dictionary-mutating entries *)

\* Mutant: the recovery guard compares with < where the code has <=
do_insertion_strict_guard(s, type, filenum, key, data, oplsn, reset_root_xid_that_created) ==
    IF ~find_ft_from_filenum(s, filenum)
    THEN IF s.txn.for_recovery THEN Return(s, 0) ELSE AssertFail(s)
    ELSE IF oplsn # 0 /\ oplsn < toku_ft_checkpoint_lsn(s, filenum)
    THEN Return(s, 0)
    ELSE LET xids == toku_txn_get_xids(s)
             msg == ft_msg(key, data, type, ZERO_MSN, xids)
             s1 == toku_ft_root_put_msg(s, filenum, msg, ~s.txn.for_recovery)
             s2 == IF reset_root_xid_that_created
                   THEN toku_reset_root_xid_that_created(s1, filenum, toku_xids_get_outermost_xid(xids))
                   ELSE s1
         IN  Return(s2, 0)

\* Mutant: a tree that is not open is passed over outside recovery as well
do_insertion_absent_tolerated(s, type, filenum, key, data, oplsn, reset_root_xid_that_created) ==
    IF ~find_ft_from_filenum(s, filenum)
    THEN Return(s, 0)
    ELSE IF oplsn # 0 /\ oplsn <= toku_ft_checkpoint_lsn(s, filenum)
    THEN Return(s, 0)
    ELSE LET xids == toku_txn_get_xids(s)
             msg == ft_msg(key, data, type, ZERO_MSN, xids)
             s1 == toku_ft_root_put_msg(s, filenum, msg, ~s.txn.for_recovery)
             s2 == IF reset_root_xid_that_created
                   THEN toku_reset_root_xid_that_created(s1, filenum, toku_xids_get_outermost_xid(xids))
                   ELSE s1
         IN  Return(s2, 0)

do_insertion(s, type, filenum, key, data, oplsn, reset_root_xid_that_created) ==
    IF ~find_ft_from_filenum(s, filenum)
    THEN IF s.txn.for_recovery THEN Return(s, 0) ELSE AssertFail(s)
    ELSE IF oplsn # 0 /\ oplsn <= toku_ft_checkpoint_lsn(s, filenum)
    THEN Return(s, 0)
    ELSE LET xids == toku_txn_get_xids(s)
             msg == ft_msg(key, data, type, ZERO_MSN, xids)
             s1 == toku_ft_root_put_msg(s, filenum, msg, ~s.txn.for_recovery)
             s2 == IF reset_root_xid_that_created
                   THEN toku_reset_root_xid_that_created(s1, filenum, toku_xids_get_outermost_xid(xids))
                   ELSE s1
         IN  Return(s2, 0)

do_nothing_with_filenum(s, filenum) == Return(s, 0)

\* Mutant: the commit of an insert sends its FT_COMMIT_ANY, as with the switch on
toku_commit_cmdinsert_switch_on(s, filenum, key, oplsn) ==
    do_insertion(s, "FT_COMMIT_ANY", filenum, key, NoData, oplsn, FALSE)

toku_commit_cmdinsert(s, filenum, key, oplsn) ==
    IF TOKU_DO_COMMIT_CMD_INSERT # 0
    THEN do_insertion(s, "FT_COMMIT_ANY", filenum, key, NoData, oplsn, FALSE)
    ELSE do_nothing_with_filenum(s, filenum)

toku_rollback_cmdinsert(s, filenum, key, oplsn) ==
    do_insertion(s, "FT_ABORT_ANY", filenum, key, NoData, oplsn, FALSE)

toku_commit_cmdupdate(s, filenum, key, oplsn) ==
    IF TOKU_DO_COMMIT_CMD_UPDATE # 0
    THEN do_insertion(s, "FT_COMMIT_ANY", filenum, key, NoData, oplsn, FALSE)
    ELSE do_nothing_with_filenum(s, filenum)

toku_rollback_cmdupdate(s, filenum, key, oplsn) ==
    do_insertion(s, "FT_ABORT_ANY", filenum, key, NoData, oplsn, FALSE)

\* Mutant: the broadcast commit never asks for the reset of root_xid_that_created
toku_commit_cmdupdatebroadcast_no_reset(s, filenum, is_resetting_op, oplsn) ==
    do_insertion(s, IF is_resetting_op THEN "FT_COMMIT_BROADCAST_ALL" ELSE "FT_COMMIT_BROADCAST_TXN",
                 filenum, nullkey, NoData, oplsn, FALSE)

toku_commit_cmdupdatebroadcast(s, filenum, is_resetting_op, oplsn) ==
    do_insertion(s, IF is_resetting_op THEN "FT_COMMIT_BROADCAST_ALL" ELSE "FT_COMMIT_BROADCAST_TXN",
                 filenum, nullkey, NoData, oplsn, is_resetting_op)

toku_rollback_cmdupdatebroadcast(s, filenum, is_resetting_op, oplsn) ==
    do_insertion(s, "FT_ABORT_BROADCAST_TXN", filenum, nullkey, NoData, oplsn, FALSE)

\* Mutant: the commit of a delete does nothing, as with the switch off
toku_commit_cmddelete_switch_off(s, filenum, key, oplsn) ==
    do_nothing_with_filenum(s, filenum)

toku_commit_cmddelete(s, filenum, key, oplsn) ==
    IF TOKU_DO_COMMIT_CMD_DELETE # 0
    THEN do_insertion(s, "FT_COMMIT_ANY", filenum, key, NoData, oplsn, FALSE)
    ELSE do_nothing_with_filenum(s, filenum)

\* Mutant: the abort of a delete sends the commit message
toku_rollback_cmddelete_commit_msg(s, filenum, key, oplsn) ==
    do_insertion(s, "FT_COMMIT_ANY", filenum, key, NoData, oplsn, FALSE)

toku_rollback_cmddelete(s, filenum, key, oplsn) ==
    do_insertion(s, "FT_ABORT_ANY", filenum, key, NoData, oplsn, FALSE)

toku_commit_change_fdescriptor(s, filenum, old_descriptor, oplsn) ==
    do_nothing_with_filenum(s, filenum)

toku_rollback_change_fdescriptor(s, filenum, old_descriptor, oplsn) ==
    IF toku_cachefile_of_filenum(s, filenum) = ENOENT
    THEN IF s.txn.for_recovery THEN Return(s, 0) ELSE AssertFail(s)
    ELSE IF ~find_ft_from_filenum(s, filenum)
    THEN AssertFail(s)
    ELSE Return(toku_ft_update_descriptor(s, filenum, old_descriptor), 0)

-----------------------------------------------------------------------------
(* roll.cc: rollinclude, the walk over a spliced chain of rollback log nodes *)

\* A roll_entry of the spliced chain: the logged command, the int its entry
\* function returns when that is not 0 (func is the caller's, the walker sees
\* only its result), and its place in the order of logging.
RollItem(cmd, filenum, key, rc, id) ==
    [cmd |-> cmd, filenum |-> filenum, key |-> key, rc |-> rc, id |-> id]

toku_commit_rollback_item(s, item, oplsn) ==
    IF item.rc # 0 THEN Return(s, item.rc)
    ELSE CASE item.cmd = "cmdinsert" -> toku_commit_cmdinsert(s, item.filenum, item.key, oplsn)
           [] item.cmd = "cmddelete" -> toku_commit_cmddelete(s, item.filenum, item.key, oplsn)
           [] item.cmd = "cmdupdate" -> toku_commit_cmdupdate(s, item.filenum, item.key, oplsn)
           [] item.cmd = "fdelete" -> toku_commit_fdelete(s, item.filenum, oplsn)
           [] item.cmd = "fcreate" -> toku_commit_fcreate(s, item.filenum, oplsn)

toku_abort_rollback_item(s, item, oplsn) ==
    IF item.rc # 0 THEN Return(s, item.rc)
    ELSE CASE item.cmd = "cmdinsert" -> toku_rollback_cmdinsert(s, item.filenum, item.key, oplsn)
           [] item.cmd = "cmddelete" -> toku_rollback_cmddelete(s, item.filenum, item.key, oplsn)
           [] item.cmd = "cmdupdate" -> toku_rollback_cmdupdate(s, item.filenum, item.key, oplsn)
           [] item.cmd = "fdelete" -> toku_rollback_fdelete(s, item.filenum, oplsn)
           [] item.cmd = "fcreate" -> toku_rollback_fcreate(s, item.filenum, oplsn)

\* apply_rollback_item func: toku_commit_rollback_item or toku_abort_rollback_item
func(s, which, item, oplsn) ==
    IF which = "commit" THEN toku_commit_rollback_item(s, item, oplsn)
    ELSE toku_abort_rollback_item(s, item, oplsn)

toku_get_and_pin_rollback_log(s, b) ==
    LET s1 == Call(s, [CallRec("toku_get_and_pin_rollback_log", 0) EXCEPT !.blocknum = b])
    IN  [s1 EXCEPT !.rollback_logs[b].pins = @ + 1]

toku_rollback_log_unpin_and_remove(s, b) ==
    LET s1 == Call(s, [CallRec("toku_rollback_log_unpin_and_remove", 0) EXCEPT !.blocknum = b])
    IN  [s1 EXCEPT !.rollback_logs[b].pins = @ - 1, !.rollback_logs[b].removed = @ + 1]

\* toku_rollback_verify_contents: the asserted owner and sequence of the pinned node
toku_rollback_verify_contents(log, xid, sequence) ==
    log.txnid = xid /\ log.sequence = sequence

\* Mutant: the items of a node are taken oldest first
RECURSIVE apply_items_oldest_first(_, _, _, _)
apply_items_oldest_first(s, b, which, oplsn) ==
    LET es == s.rollback_logs[b].entries
    IN  IF es = <<>> THEN s
        ELSE LET item == es[1]
                 s1 == [s EXCEPT !.rollback_logs[b].entries = Tail(es),
                                 !.applied = Append(@, item.id)]
                 s2 == func(s1, which, item, oplsn)
             IN  IF s2.crashed \/ s2.ret # 0 THEN s2
                 ELSE apply_items_oldest_first(s2, b, which, oplsn)

\* Mutant: the walk goes on after an entry function has returned an error
RECURSIVE apply_items_ignore_error(_, _, _, _)
apply_items_ignore_error(s, b, which, oplsn) ==
    LET es == s.rollback_logs[b].entries
    IN  IF es = <<>> THEN s
        ELSE LET item == es[Len(es)]
                 s1 == [s EXCEPT !.rollback_logs[b].entries = SubSeq(es, 1, Len(es) - 1),
                                 !.applied = Append(@, item.id)]
                 s2 == func(s1, which, item, oplsn)
             IN  IF s2.crashed THEN s2
                 ELSE apply_items_ignore_error(s2, b, which, oplsn)

\* while ((item=log->newest_logentry)) { log->newest_logentry = item->prev; r = func(...); if (r!=0) return r; }
\* entries holds the node's items oldest first: newest_logentry is the last one.
RECURSIVE apply_items(_, _, _, _)
apply_items(s, b, which, oplsn) ==
    LET es == s.rollback_logs[b].entries
    IN  IF es = <<>> THEN s
        ELSE LET item == es[Len(es)]
                 s1 == [s EXCEPT !.rollback_logs[b].entries = SubSeq(es, 1, Len(es) - 1),
                                 !.applied = Append(@, item.id)]
                 s2 == func(s1, which, item, oplsn)
             IN  IF s2.crashed \/ s2.ret # 0 THEN s2
                 ELSE apply_items(s2, b, which, oplsn)

\* Mutant: the walk pins the node a second time before it drains it
RECURSIVE walk_loop_pin_again(_, _, _, _, _)
walk_loop_pin_again(s, loc, xid, which, oplsn) ==
    IF loc.next_log = ROLLBACK_NONE THEN s
    ELSE IF loc.next_log \notin DOMAIN s.rollback_logs \/ s.rollback_logs[loc.next_log].removed > 0
    THEN AssertFail(s)
    ELSE LET b == loc.next_log
             s1 == toku_get_and_pin_rollback_log(toku_get_and_pin_rollback_log(s, b), b)
             log == s1.rollback_logs[b]
         IN  IF ~toku_rollback_verify_contents(log, xid, loc.last_sequence - 1)
             THEN AssertFail(s1)
             ELSE LET s2 == apply_items(s1, b, which, oplsn)
                      at_head == (b = loc.spilled_head)
                      found_head == loc.found_head \/ at_head
                      next_log == log.previous
                  IN  IF s2.crashed \/ s2.ret # 0 THEN s2
                      ELSE IF at_head /\ (loc.found_head \/ log.sequence # 0)
                      THEN AssertFail(s2)
                      ELSE IF found_head /\ next_log # ROLLBACK_NONE
                      THEN AssertFail(s2)
                      ELSE walk_loop_pin_again(toku_rollback_log_unpin_and_remove(s2, b),
                                     [next_log |-> next_log,
                                      last_sequence |-> log.sequence,
                                      found_head |-> found_head,
                                      spilled_tail |-> next_log,
                                      spilled_head |-> IF found_head THEN next_log ELSE loc.spilled_head],
                                     xid, which, oplsn)

\* One turn of while (next_log.b != ROLLBACK_NONE.b), then the rest of the loop.
\* last_sequence is a uint64_t; every chain has num_nodes >= 1, so last_sequence - 1
\* never wraps.
\* loc holds the locals: next_log, last_sequence, found_head, and the by-value
\* parameters spilled_head and spilled_tail, which the loop assigns.
RECURSIVE walk_loop(_, _, _, _, _)
walk_loop(s, loc, xid, which, oplsn) ==
    IF loc.next_log = ROLLBACK_NONE THEN s
    ELSE IF loc.next_log \notin DOMAIN s.rollback_logs \/ s.rollback_logs[loc.next_log].removed > 0
    THEN AssertFail(s)
    ELSE LET b == loc.next_log
             s1 == toku_get_and_pin_rollback_log(s, b)
             log == s1.rollback_logs[b]
         IN  IF ~toku_rollback_verify_contents(log, xid, loc.last_sequence - 1)
             THEN AssertFail(s1)
             ELSE LET s2 == apply_items(s1, b, which, oplsn)
                      at_head == (b = loc.spilled_head)
                      found_head == loc.found_head \/ at_head
                      next_log == log.previous
                  IN  IF s2.crashed \/ s2.ret # 0 THEN s2
                      ELSE IF at_head /\ (loc.found_head \/ log.sequence # 0)
                      THEN AssertFail(s2)
                      ELSE IF found_head /\ next_log # ROLLBACK_NONE
                      THEN AssertFail(s2)
                      ELSE walk_loop(toku_rollback_log_unpin_and_remove(s2, b),
                                     [next_log |-> next_log,
                                      last_sequence |-> log.sequence,
                                      found_head |-> found_head,
                                      spilled_tail |-> next_log,
                                      spilled_head |-> IF found_head THEN next_log ELSE loc.spilled_head],
                                     xid, which, oplsn)

toku_apply_rollinclude(s, xid, num_nodes, spilled_head, spilled_tail, which, oplsn) ==
    IF spilled_tail = ROLLBACK_NONE THEN AssertFail(s)
    ELSE walk_loop(Return(s, 0),
                   [next_log |-> spilled_tail, last_sequence |-> num_nodes, found_head |-> FALSE,
                    spilled_tail |-> spilled_tail, spilled_head |-> spilled_head],
                   xid, which, oplsn)

toku_commit_rollinclude(s, xid, num_nodes, spilled_head, spilled_tail, oplsn) ==
    toku_apply_rollinclude(s, xid, num_nodes, spilled_head, spilled_tail, "commit", oplsn)

toku_rollback_rollinclude(s, xid, num_nodes, spilled_head, spilled_tail, oplsn) ==
    toku_apply_rollinclude(s, xid, num_nodes, spilled_head, spilled_tail, "abort", oplsn)

-----------------------------------------------------------------------------
(* States: a txn about to commit or abort one rollback entry *)

FtInit(lsn) ==
    [checkpoint_lsn |-> lsn, msgs |-> <<>>, descriptor |-> "d0", root_xid_that_created |-> 1]

LastRec(op) ==
    [op |-> op, filenum |-> 0, key |-> nullkey, oplsn |-> 0, is_resetting_op |-> FALSE,
     old_descriptor |-> "", xid |-> 0, num_nodes |-> 0, unlink_errno |-> 0,
     new_filenum |-> 0, redirect_r |-> 0,
     spilled_head |-> ROLLBACK_NONE, spilled_tail |-> ROLLBACK_NONE, logged |-> <<>>]

\* An FT open in the txn has its cachefile in the cachetable; a cachefile already
\* marked unlink-on-close is what an earlier entry of the txn leaves.
TypeOK ==
    /\ txn.open_fts \subseteq {f \in FileIds : cachefiles[f].present}
    /\ \A f \in FileIds : cachefiles[f].unlink_on_close => cachefiles[f].present
    /\ fsynced_lsn \in Lsns
    /\ ret \in Int
    /\ crashed \in BOOLEAN

Init ==
    /\ txn \in [for_recovery : BOOLEAN, do_fsync_lsn : Lsns, xids : XidStacks,
                open_fts : SUBSET FileIds,
                spilled_head : {ROLLBACK_NONE}, spilled_tail : {ROLLBACK_NONE}]
    /\ fsynced_lsn \in Lsns
    /\ cachefiles \in [FileIds -> [present : BOOLEAN, unlink_on_close : BOOLEAN]]
    /\ \A f \in FileIds : cachefiles[f].unlink_on_close => cachefiles[f].present
    /\ txn.open_fts \subseteq {f \in FileIds : cachefiles[f].present}
    /\ fts \in [FileIds -> {FtInit(l) : l \in Lsns}]
    /\ \A f \in FileIds : f \notin txn.open_fts => fts[f].checkpoint_lsn = 0
    /\ rollback_logs = <<>>
    /\ calls = <<>>
    /\ applied = <<>>
    /\ ret = 0
    /\ crashed = FALSE
    /\ last = LastRec("none")
    /\ MvccAtRest
    /\ VecAtRest

\* The txn applies one entry; a chain of entries is applied by the walker (WalkSpec)
Ready == ~crashed /\ last.op = "none"

Done(s, l) == Install(s) /\ last' = l

commit_fdelete ==
    /\ Ready
    /\ \E f \in FileIds, l \in Lsns :
         Done(toku_commit_fdelete(World, f, l),
              [LastRec("toku_commit_fdelete") EXCEPT !.filenum = f, !.oplsn = l])

rollback_fdelete ==
    /\ Ready
    /\ \E f \in FileIds, l \in Lsns :
         Done(toku_rollback_fdelete(World, f, l),
              [LastRec("toku_rollback_fdelete") EXCEPT !.filenum = f, !.oplsn = l])

commit_fcreate ==
    /\ Ready
    /\ \E f \in FileIds, l \in Lsns :
         Done(toku_commit_fcreate(World, f, l),
              [LastRec("toku_commit_fcreate") EXCEPT !.filenum = f, !.oplsn = l])

rollback_fcreate ==
    /\ Ready
    /\ \E f \in FileIds, l \in Lsns :
         Done(toku_rollback_fcreate(World, f, l),
              [LastRec("toku_rollback_fcreate") EXCEPT !.filenum = f, !.oplsn = l])

commit_load ==
    /\ Ready
    /\ \E f \in FileIds, l \in Lsns :
         Done(toku_commit_load(World, f, l),
              [LastRec("toku_commit_load") EXCEPT !.filenum = f, !.oplsn = l])

\* What unlink() can leave: success, no such path, permission denied
UnlinkErrnos == {0, ENOENT, 13}

rollback_load ==
    /\ Ready
    /\ \E f \in FileIds, e \in UnlinkErrnos, l \in Lsns :
         Done(toku_rollback_load(World, f, e, l),
              [LastRec("toku_rollback_load") EXCEPT !.filenum = f, !.unlink_errno = e, !.oplsn = l])

commit_hot_index ==
    /\ Ready
    /\ \E l \in Lsns :
         Done(toku_commit_hot_index(World, l), [LastRec("toku_commit_hot_index") EXCEPT !.oplsn = l])

rollback_hot_index ==
    /\ Ready
    /\ \E l \in Lsns :
         Done(toku_rollback_hot_index(World, l), [LastRec("toku_rollback_hot_index") EXCEPT !.oplsn = l])

commit_dictionary_redirect ==
    /\ Ready
    /\ \E f \in FileIds, g \in FileIds, l \in Lsns :
         /\ f # g
         /\ Done(toku_commit_dictionary_redirect(World, f, g, l),
                 [LastRec("toku_commit_dictionary_redirect") EXCEPT !.filenum = f, !.oplsn = l])

\* What the engine's redirect-abort can return: success, or an error (EINVAL)
RedirectResults == {0, 22}

rollback_dictionary_redirect ==
    /\ Ready
    /\ \E f \in FileIds, g \in FileIds, e \in RedirectResults, l \in Lsns :
         /\ f # g
         /\ Done(toku_rollback_dictionary_redirect(World, f, g, e, l),
                 [LastRec("toku_rollback_dictionary_redirect") EXCEPT
                     !.filenum = f, !.new_filenum = g, !.redirect_r = e, !.oplsn = l])

commit_cmdinsert ==
    /\ Ready
    /\ \E f \in FileIds, k \in Keys, l \in Lsns :
         Done(toku_commit_cmdinsert(World, f, k, l),
              [LastRec("toku_commit_cmdinsert") EXCEPT !.filenum = f, !.key = k, !.oplsn = l])

rollback_cmdinsert ==
    /\ Ready
    /\ \E f \in FileIds, k \in Keys, l \in Lsns :
         Done(toku_rollback_cmdinsert(World, f, k, l),
              [LastRec("toku_rollback_cmdinsert") EXCEPT !.filenum = f, !.key = k, !.oplsn = l])

commit_cmdupdate ==
    /\ Ready
    /\ \E f \in FileIds, k \in Keys, l \in Lsns :
         Done(toku_commit_cmdupdate(World, f, k, l),
              [LastRec("toku_commit_cmdupdate") EXCEPT !.filenum = f, !.key = k, !.oplsn = l])

rollback_cmdupdate ==
    /\ Ready
    /\ \E f \in FileIds, k \in Keys, l \in Lsns :
         Done(toku_rollback_cmdupdate(World, f, k, l),
              [LastRec("toku_rollback_cmdupdate") EXCEPT !.filenum = f, !.key = k, !.oplsn = l])

commit_cmdupdatebroadcast ==
    /\ Ready
    /\ \E f \in FileIds, b \in BOOLEAN, l \in Lsns :
         Done(toku_commit_cmdupdatebroadcast(World, f, b, l),
              [LastRec("toku_commit_cmdupdatebroadcast") EXCEPT !.filenum = f, !.is_resetting_op = b, !.oplsn = l])

rollback_cmdupdatebroadcast ==
    /\ Ready
    /\ \E f \in FileIds, b \in BOOLEAN, l \in Lsns :
         Done(toku_rollback_cmdupdatebroadcast(World, f, b, l),
              [LastRec("toku_rollback_cmdupdatebroadcast") EXCEPT !.filenum = f, !.is_resetting_op = b, !.oplsn = l])

commit_cmddelete ==
    /\ Ready
    /\ \E f \in FileIds, k \in Keys, l \in Lsns :
         Done(toku_commit_cmddelete(World, f, k, l),
              [LastRec("toku_commit_cmddelete") EXCEPT !.filenum = f, !.key = k, !.oplsn = l])

rollback_cmddelete ==
    /\ Ready
    /\ \E f \in FileIds, k \in Keys, l \in Lsns :
         Done(toku_rollback_cmddelete(World, f, k, l),
              [LastRec("toku_rollback_cmddelete") EXCEPT !.filenum = f, !.key = k, !.oplsn = l])

commit_change_fdescriptor ==
    /\ Ready
    /\ \E f \in FileIds, d \in Descriptors, l \in Lsns :
         Done(toku_commit_change_fdescriptor(World, f, d, l),
              [LastRec("toku_commit_change_fdescriptor") EXCEPT !.filenum = f, !.old_descriptor = d, !.oplsn = l])

rollback_change_fdescriptor ==
    /\ Ready
    /\ \E f \in FileIds, d \in Descriptors, l \in Lsns :
         Done(toku_rollback_change_fdescriptor(World, f, d, l),
              [LastRec("toku_rollback_change_fdescriptor") EXCEPT !.filenum = f, !.old_descriptor = d, !.oplsn = l])

Next ==
    \/ commit_fdelete
    \/ rollback_fdelete
    \/ commit_fcreate
    \/ rollback_fcreate
    \/ commit_load
    \/ rollback_load
    \/ commit_hot_index
    \/ rollback_hot_index
    \/ commit_dictionary_redirect
    \/ rollback_dictionary_redirect
    \/ commit_cmdinsert
    \/ rollback_cmdinsert
    \/ commit_cmdupdate
    \/ rollback_cmdupdate
    \/ commit_cmdupdatebroadcast
    \/ rollback_cmdupdatebroadcast
    \/ commit_cmddelete
    \/ rollback_cmddelete
    \/ commit_change_fdescriptor
    \/ rollback_change_fdescriptor

Spec == Init /\ [][Next]_vars

-----------------------------------------------------------------------------
(* States: a parent txn about to commit or abort a rollinclude entry, the    *)
(* child's chain spliced in                                                  *)

\* What the child logged: (cmd, filenum, key) and the result of its entry function
ItemKinds ==
    { <<"cmdinsert", 7, "a", 0>>, <<"cmddelete", 9, "b", 0>>,
      <<"cmdupdate", 7, "b", 5>>, <<"cmddelete", 7, "a", 22>> }

ChildXids == {4}
ParentLogs == {ROLLBACK_NONE, 8}

\* The items logged, in order, and for each the sequence number of the node that
\* holds it: nodes fill in order, a node may be empty
Loggings ==
    UNION { [1 .. k -> ItemKinds] : k \in 0 .. MaxEntries }

NodeOf(k, n) ==
    { f \in [1 .. k -> 0 .. n - 1] : \A i \in 1 .. k, j \in 1 .. k : i <= j => f[i] <= f[j] }

RECURSIVE EntriesOf(_, _, _, _)
EntriesOf(items, node_of, q, i) ==
    IF i > Len(items) THEN <<>>
    ELSE IF node_of[i] = q
    THEN <<RollItem(items[i][1], items[i][2], items[i][3], items[i][4], i)>>
             \o EntriesOf(items, node_of, q, i + 1)
    ELSE EntriesOf(items, node_of, q, i + 1)

\* Block numbers are the allocator's: ascending or descending along the chain
BlockOf(q, n, asc) == IF q < 0 THEN ROLLBACK_NONE ELSE IF asc THEN q + 1 ELSE n - q

SeqOf(b, n, asc) == IF asc THEN b - 1 ELSE n - b

Chain(xid, items, node_of, n, asc) ==
    [b \in 1 .. n |->
        [txnid |-> xid, sequence |-> SeqOf(b, n, asc),
         previous |-> BlockOf(SeqOf(b, n, asc) - 1, n, asc),
         entries |-> EntriesOf(items, node_of, SeqOf(b, n, asc), 1),
         pins |-> 0, removed |-> 0]]

\* The rollinclude entry the child's commit left in the parent
NumNodes == Len(rollback_logs)
SpilledHead == CHOOSE b \in DOMAIN rollback_logs : rollback_logs[b].sequence = 0
SpilledTail == CHOOSE b \in DOMAIN rollback_logs : rollback_logs[b].sequence = NumNodes - 1
OwnerXid == rollback_logs[SpilledHead].txnid

WalkInit ==
    /\ txn \in [for_recovery : BOOLEAN, do_fsync_lsn : {1}, xids : {<<3>>},
                open_fts : {{7}, {7, 9}},
                spilled_head : ParentLogs, spilled_tail : ParentLogs]
    /\ (txn.spilled_head = ROLLBACK_NONE) = (txn.spilled_tail = ROLLBACK_NONE)
    /\ fsynced_lsn = 0
    /\ cachefiles = [f \in FileIds |-> [present |-> f \in txn.open_fts, unlink_on_close |-> FALSE]]
    /\ fts = [f \in FileIds |-> FtInit(IF f \in txn.open_fts THEN 1 ELSE 0)]
    /\ \E n \in 1 .. MaxNodes, items \in Loggings, asc \in BOOLEAN, xid \in ChildXids :
         \E node_of \in NodeOf(Len(items), n) :
            rollback_logs = Chain(xid, items, node_of, n, asc)
    /\ calls = <<>>
    /\ applied = <<>>
    /\ ret = 0
    /\ crashed = FALSE
    /\ last = LastRec("none")
    /\ MvccAtRest
    /\ VecAtRest

\* The items of the chain in the order the child logged them
RECURSIVE LoggedFrom(_)
LoggedFrom(q) ==
    IF q >= NumNodes THEN <<>>
    ELSE (LET b == CHOOSE c \in DOMAIN rollback_logs : rollback_logs[c].sequence = q
          IN  rollback_logs[b].entries) \o LoggedFrom(q + 1)

RollincludeRec(op, l) ==
    [LastRec(op) EXCEPT !.oplsn = l, !.xid = OwnerXid, !.num_nodes = NumNodes,
                        !.spilled_head = SpilledHead, !.spilled_tail = SpilledTail,
                        !.logged = LoggedFrom(0)]

commit_rollinclude ==
    /\ Ready
    /\ \E l \in Lsns :
         Done(toku_commit_rollinclude(World, OwnerXid, NumNodes, SpilledHead, SpilledTail, l),
              RollincludeRec("toku_commit_rollinclude", l))

rollback_rollinclude ==
    /\ Ready
    /\ \E l \in Lsns :
         Done(toku_rollback_rollinclude(World, OwnerXid, NumNodes, SpilledHead, SpilledTail, l),
              RollincludeRec("toku_rollback_rollinclude", l))

WalkNext ==
    \/ commit_rollinclude
    \/ rollback_rollinclude

WalkSpec == WalkInit /\ [][WalkNext]_vars

-----------------------------------------------------------------------------
(* Properties of the entry functions (Spec) *)

Called(op) == last.op = op

\* The indices of the calls to fn among the calls of the entry function
CallsTo(fn) == {i \in 1 .. Len(calls) : calls[i].fn = fn}

\* C1: on commit of an fdelete entry whose cachefile is present, the log is
\* fsynced up to at least txn.do_fsync_lsn before the cachefile is marked
\* unlink-on-close: the mark is made once, after the fsync call, with the log
\* fsynced to do_fsync_lsn or beyond at the moment of the mark.
C1_FsyncBeforeUnlink ==
    (Called("toku_commit_fdelete") /\ cachefiles[last.filenum].present) =>
        /\ ~crashed /\ ret = 0
        /\ Cardinality(CallsTo("toku_cachefile_unlink_on_close")) = 1
        /\ \A j \in CallsTo("toku_cachefile_unlink_on_close") :
              /\ calls[j].filenum = last.filenum
              /\ calls[j].fsynced >= txn.do_fsync_lsn
              /\ \E i \in CallsTo("toku_logger_fsync_if_lsn_not_fsynced") :
                    i < j /\ calls[i].lsn = txn.do_fsync_lsn
        /\ cachefiles[last.filenum].unlink_on_close
        /\ fsynced_lsn >= txn.do_fsync_lsn

\* The log was behind do_fsync_lsn when toku_commit_fdelete was called, and the cachefile got marked
C1_Witness ==
    /\ Called("toku_commit_fdelete") /\ cachefiles[last.filenum].present
    /\ Len(calls) = 2
    /\ calls[1].fn = "toku_logger_fsync_if_lsn_not_fsynced"
    /\ calls[1].fsynced < txn.do_fsync_lsn
    /\ calls[2].fn = "toku_cachefile_unlink_on_close"

\* The entry functions that send a message to the tree
MessageOps ==
    {"toku_rollback_cmdinsert", "toku_rollback_cmddelete", "toku_rollback_cmdupdate",
     "toku_commit_cmdupdatebroadcast", "toku_rollback_cmdupdatebroadcast"}
        \cup (IF TOKU_DO_COMMIT_CMD_DELETE # 0 THEN {"toku_commit_cmddelete"} ELSE {})
        \cup (IF TOKU_DO_COMMIT_CMD_INSERT # 0 THEN {"toku_commit_cmdinsert"} ELSE {})
        \cup (IF TOKU_DO_COMMIT_CMD_UPDATE # 0 THEN {"toku_commit_cmdupdate"} ELSE {})

\* The entry function just called is a replay (oplsn > 0) on an open tree whose
\* checkpoint LSN is at or beyond oplsn
AlreadyApplied ==
    /\ last'.op # "none" /\ last.op = "none"
    /\ last'.oplsn > 0
    /\ last'.filenum \in txn.open_fts
    /\ fts[last'.filenum].checkpoint_lsn >= last'.oplsn

\* C2: a message-emitting entry function called with oplsn > 0 on a tree whose
\* checkpoint LSN is >= oplsn returns success, sends no message to any tree
\* root and does not reset root_xid_that_created.
C2_RecoveryGuardSkips ==
    [][(AlreadyApplied /\ last'.op \in MessageOps) =>
          /\ ~crashed' /\ ret' = 0
          /\ \A i \in 1 .. Len(calls') : calls'[i].fn # "toku_ft_root_put_msg"
          /\ \A f \in FileIds :
                /\ fts'[f].msgs = fts[f].msgs
                /\ fts'[f].root_xid_that_created = fts[f].root_xid_that_created]_vars

\* A resetting broadcast commit replayed at exactly the tree's checkpoint LSN
C2_Witness ==
    /\ Called("toku_commit_cmdupdatebroadcast") /\ last.is_resetting_op
    /\ last.filenum \in txn.open_fts
    /\ last.oplsn > 0 /\ last.oplsn = fts[last.filenum].checkpoint_lsn
    /\ ret = 0 /\ ~crashed

\* C3 (as claimed): every entry function, commit side or abort side, the abort
\* of change-descriptor included, replayed with 0 < oplsn <= the checkpoint LSN
\* of its target tree, leaves every tree (messages, descriptor,
\* root_xid_that_created) as it was.
C3_ReplayLeavesTreesAlone ==
    [][AlreadyApplied => fts' = fts]_vars

\* Outside the recovery guard, with the tree open
Applies ==
    /\ last'.op # "none" /\ last.op = "none"
    /\ last'.filenum \in txn.open_fts
    /\ ~(last'.oplsn > 0 /\ last'.oplsn <= fts[last'.filenum].checkpoint_lsn)

\* C4: the abort of a logged insert, delete or update on (file, key), outside
\* the recovery guard and with the tree open, sends exactly one message: an
\* FT_ABORT_ANY for that key to that file's tree, with the txn's xids, no value
\* and a zero MSN; no other tree gets anything.
C4_AbortEmitsOneAbortAny ==
    [][(Applies /\ last'.op \in {"toku_rollback_cmdinsert", "toku_rollback_cmddelete",
                                 "toku_rollback_cmdupdate"}) =>
          /\ ~crashed' /\ ret' = 0
          /\ Len(calls') = 1
          /\ calls'[1].fn = "toku_ft_root_put_msg" /\ calls'[1].filenum = last'.filenum
          /\ fts'[last'.filenum].msgs =
                Append(fts[last'.filenum].msgs,
                       [type |-> "FT_ABORT_ANY", key |-> last'.key, val |-> NoData,
                        msn |-> 0, xids |-> txn.xids])
          /\ \A f \in FileIds \ {last'.filenum} : fts'[f] = fts[f]]_vars

\* A logged delete aborted in recovery, past the checkpoint, under a nested txn
C4_Witness ==
    /\ Called("toku_rollback_cmddelete") /\ last.key = "b"
    /\ last.filenum \in txn.open_fts
    /\ last.oplsn > fts[last.filenum].checkpoint_lsn
    /\ Len(txn.xids) = 2
    /\ Len(fts[last.filenum].msgs) = 1

\* What C3 says holds of every entry function but the abort of change-descriptor
C3_ReplayLeavesTreesAloneButDescriptor ==
    [][(AlreadyApplied /\ last'.op # "toku_rollback_change_fdescriptor") => fts' = fts]_vars

\* The entry functions that look the cachefile up by FILENUM
CachefileOps ==
    {"toku_commit_fdelete", "toku_rollback_fcreate", "toku_commit_load",
     "toku_rollback_change_fdescriptor"}

\* C9 (as claimed): for every entry function that looks a cachefile up by its
\* FILENUM, an absent file gives success without effect if the txn is for
\* recovery, and a failed assertion if it is not.
C9_AbsentFileToleratedIffRecovery ==
    (last.op \in CachefileOps /\ ~cachefiles[last.filenum].present) =>
        IF txn.for_recovery
        THEN ~crashed /\ ret = 0 /\ calls = <<>>
        ELSE crashed

\* What C9 says holds of every such entry function but the abort of fcreate
C9_AbsentFileButFcreate ==
    (last.op \in CachefileOps \ {"toku_rollback_fcreate"} /\ ~cachefiles[last.filenum].present) =>
        IF txn.for_recovery
        THEN ~crashed /\ ret = 0 /\ calls = <<>>
        ELSE crashed

\* C10: the commit of an fdelete whose cachefile is missing returns success
\* when the txn is for recovery, without fsyncing the log and without marking
\* any cachefile; when the txn is not for recovery an assertion fails.
C10_FdeleteMissingFile ==
    [][(last.op = "none" /\ last'.op = "toku_commit_fdelete"
            /\ ~cachefiles[last'.filenum].present) =>
          /\ calls' = <<>>
          /\ fsynced_lsn' = fsynced_lsn
          /\ cachefiles' = cachefiles
          /\ IF txn.for_recovery THEN ~crashed' /\ ret' = 0 ELSE crashed']_vars

\* An fdelete committed outside recovery with its cachefile missing, the log behind do_fsync_lsn
C10_Witness ==
    /\ Called("toku_commit_fdelete") /\ ~cachefiles[last.filenum].present
    /\ ~txn.for_recovery /\ crashed
    /\ fsynced_lsn < txn.do_fsync_lsn

-----------------------------------------------------------------------------
(* Properties of the rollinclude walker (WalkSpec) *)

Walked == last.op \in {"toku_commit_rollinclude", "toku_rollback_rollinclude"}

\* The walker returned: no assertion failed on the way
Returned == Walked /\ ~crashed

\* C5 (as claimed): after the commit or abort of a rollinclude entry returns
\* success, every node of the spliced chain has been unpinned and removed
\* exactly once, and the txn's spilled_head and spilled_tail are both NONE.
C5_ChainDrainedAndTxnCleared ==
    (Returned /\ ret = 0) =>
        /\ \A b \in DOMAIN rollback_logs :
              /\ rollback_logs[b].pins = 0
              /\ rollback_logs[b].removed = 1
              /\ rollback_logs[b].entries = <<>>
        /\ txn.spilled_head = ROLLBACK_NONE
        /\ txn.spilled_tail = ROLLBACK_NONE

\* What C5 says of the nodes holds: each is unpinned and removed exactly once
C5_ChainDrained ==
    (Returned /\ ret = 0) =>
        \A b \in DOMAIN rollback_logs :
            /\ rollback_logs[b].pins = 0
            /\ rollback_logs[b].removed = 1
            /\ rollback_logs[b].entries = <<>>

\* C6 (as claimed): whenever the walker returns, with success or with the
\* error of an entry function, no rollback log node is left pinned.
C6_NoPinLeftOnReturn ==
    Returned => \A b \in DOMAIN rollback_logs : rollback_logs[b].pins = 0

\* The blocks pinned by the walk, in order
RECURSIVE PinnedFrom(_)
PinnedFrom(i) ==
    IF i > Len(calls) THEN <<>>
    ELSE IF calls[i].fn = "toku_get_and_pin_rollback_log"
    THEN <<calls[i].blocknum>> \o PinnedFrom(i + 1)
    ELSE PinnedFrom(i + 1)

Pinned == PinnedFrom(1)

\* C7: the walker applies the entries of the spliced chain in the reverse of
\* the order they were logged, across all nodes: the nodes are pinned from
\* spilled_tail on, with sequence numbers num_nodes-1, num_nodes-2, ..., down
\* to spilled_head with sequence 0 when the walk completes; the items handed to
\* func are the newest, the one before it, and so on with none skipped.
C7_ReverseInsertionOrder ==
    Walked =>
        /\ \A i \in 1 .. Len(Pinned) :
              rollback_logs[Pinned[i]].sequence = last.num_nodes - i
        /\ Len(Pinned) >= 1 /\ Pinned[1] = last.spilled_tail
        /\ \A i \in 1 .. Len(applied) : applied[i] = Len(last.logged) + 1 - i
        /\ \A i \in 1 .. Len(last.logged) : last.logged[i].id = i
        /\ (~crashed /\ ret = 0) =>
              /\ Len(Pinned) = last.num_nodes
              /\ Pinned[Len(Pinned)] = last.spilled_head
              /\ Len(applied) = Len(last.logged)

\* A walk over two nodes, each holding items, that applied three items
C7_Witness ==
    /\ Walked /\ ~crashed /\ ret = 0
    /\ Len(Pinned) = 2
    /\ Len(applied) = 3
    /\ \E i \in 1 .. 3 : last.logged[i].filenum # last.logged[1].filenum
    /\ Pinned[1] < Pinned[2]

\* The places, in the order of logging, of the items whose entry function returns an error
Failing == {i \in 1 .. Len(last.logged) : last.logged[i].rc # 0}

\* C8: if an entry function returns a non-zero error the walker returns that
\* error and applies nothing after it: the items applied are the ones logged
\* after the newest failing item, newest first, and then that item.  If no
\* entry function fails every item of the chain is applied exactly once and the
\* walker returns 0.  Commit and abort: the same.
C8_FirstErrorStopsWalk ==
    Returned =>
        IF Failing = {}
        THEN /\ ret = 0
             /\ applied = [i \in 1 .. Len(last.logged) |-> Len(last.logged) + 1 - i]
        ELSE LET first == CHOOSE i \in Failing : \A j \in Failing : j <= i
             IN  /\ ret = last.logged[first].rc
                 /\ applied = [i \in 1 .. Len(last.logged) + 1 - first |-> Len(last.logged) + 1 - i]

\* An abort whose walk met a failing item after it applied another, with a second failing item behind
C8_Witness ==
    /\ Called("toku_rollback_rollinclude") /\ ~crashed
    /\ ret = 22
    /\ Len(applied) = 2
    /\ Cardinality(Failing) = 2
    /\ Len(last.logged) = 3

-----------------------------------------------------------------------------
(* Properties of the commit switches (Spec) *)

JustCalled(op) == last.op = "none" /\ last'.op = op

NoPutMsg(cs) == \A i \in 1 .. Len(cs) : cs[i].fn # "toku_ft_root_put_msg"

\* C11 (as claimed): with the switches as compiled, the commit of a logged
\* delete is a no-op: no message is sent and every tree is left as it was.
C11_CommitDeleteIsNoOp ==
    [][JustCalled("toku_commit_cmddelete") =>
          /\ NoPutMsg(calls')
          /\ fts' = fts]_vars

\* C11 (amended): with the switches as compiled (TOKU_DO_COMMIT_CMD_DELETE is
\* 1) the commit of a logged delete on an open tree, outside the recovery
\* guard, sends exactly one FT_COMMIT_ANY for the key to that tree, with the
\* txn's xids, no value and a zero MSN, and touches no other tree; when the
\* guard trips, or the tree is not open in a txn for recovery, it sends nothing
\* and leaves every tree as it was.
C11_CommitDeleteSendsCommitAny ==
    [][JustCalled("toku_commit_cmddelete") =>
          IF last'.filenum \in txn.open_fts
          THEN /\ ~crashed' /\ ret' = 0
               /\ IF last'.oplsn > 0 /\ last'.oplsn <= fts[last'.filenum].checkpoint_lsn
                  THEN calls' = <<>> /\ fts' = fts
                  ELSE /\ Len(calls') = 1
                       /\ calls'[1].fn = "toku_ft_root_put_msg"
                       /\ calls'[1].filenum = last'.filenum
                       /\ fts' = [fts EXCEPT ![last'.filenum].msgs =
                                    Append(@, [type |-> "FT_COMMIT_ANY", key |-> last'.key,
                                               val |-> NoData, msn |-> 0, xids |-> txn.xids])]
          ELSE /\ calls' = <<>> /\ fts' = fts
               /\ IF txn.for_recovery THEN ~crashed' /\ ret' = 0 ELSE crashed']_vars

\* A logged delete committed at run time (oplsn 0) on an open tree: the message is at the root
C11_Witness ==
    /\ Called("toku_commit_cmddelete") /\ last.oplsn = 0
    /\ last.filenum \in txn.open_fts
    /\ Len(fts[last.filenum].msgs) = 1
    /\ fts[last.filenum].msgs[1].type = "FT_COMMIT_ANY"
    /\ fts[last.filenum].msgs[1].key = last.key

\* C12: with the switches as compiled (TOKU_DO_COMMIT_CMD_INSERT and
\* TOKU_DO_COMMIT_CMD_UPDATE are 0) the commit of a logged insert or update
\* returns 0, sends no message and changes no tree, no cachefile and nothing of
\* the log, in recovery or not, with the file open or not; the abort of the
\* same entries, on an open tree outside the recovery guard, still sends
\* FT_ABORT_ANY.
C12_CommitInsertUpdateNoOp ==
    [][/\ (JustCalled("toku_commit_cmdinsert") \/ JustCalled("toku_commit_cmdupdate")) =>
             /\ ~crashed' /\ ret' = 0
             /\ calls' = <<>>
             /\ fts' = fts
             /\ cachefiles' = cachefiles
             /\ fsynced_lsn' = fsynced_lsn
             /\ txn' = txn
       /\ (Applies /\ last'.op \in {"toku_rollback_cmdinsert", "toku_rollback_cmdupdate"}) =>
             /\ Len(fts'[last'.filenum].msgs) = Len(fts[last'.filenum].msgs) + 1
             /\ fts'[last'.filenum].msgs[Len(fts'[last'.filenum].msgs)].type = "FT_ABORT_ANY"]_vars

\* A logged insert committed outside recovery on a file that is not open: no assertion, nothing done
C12_Witness ==
    /\ Called("toku_commit_cmdinsert")
    /\ ~txn.for_recovery
    /\ last.filenum \notin txn.open_fts
    /\ ~cachefiles[last.filenum].present
    /\ ret = 0 /\ ~crashed

\* The one message the entry function just called sent to its tree, no other tree touched
SentOnly(type) ==
    /\ Len(calls') = 1
    /\ calls'[1].fn = "toku_ft_root_put_msg"
    /\ calls'[1].filenum = last'.filenum
    /\ fts'[last'.filenum].msgs =
          Append(fts[last'.filenum].msgs,
                 [type |-> type, key |-> nullkey, val |-> NoData, msn |-> 0, xids |-> txn.xids])
    /\ \A f \in FileIds \ {last'.filenum} : fts'[f] = fts[f]

\* C22: the commit of an update-broadcast entry that is applied (tree open, recovery guard not
\* tripped) sends exactly one message, FT_COMMIT_BROADCAST_ALL if is_resetting_op and
\* FT_COMMIT_BROADCAST_TXN otherwise, and root_xid_that_created becomes the outermost xid of
\* the txn's stack if and only if is_resetting_op and the message was applied; the abort
\* sends exactly one FT_ABORT_BROADCAST_TXN and never changes root_xid_that_created
C22_BroadcastMessagesAndReset ==
    [][/\ JustCalled("toku_commit_cmdupdatebroadcast") =>
             IF Applies
             THEN /\ ~crashed' /\ ret' = 0
                  /\ SentOnly(IF last'.is_resetting_op THEN "FT_COMMIT_BROADCAST_ALL"
                                                       ELSE "FT_COMMIT_BROADCAST_TXN")
                  /\ fts'[last'.filenum].root_xid_that_created =
                        IF last'.is_resetting_op THEN txn.xids[1]
                        ELSE fts[last'.filenum].root_xid_that_created
             ELSE NoPutMsg(calls') /\ fts' = fts
       /\ JustCalled("toku_rollback_cmdupdatebroadcast") =>
             /\ IF Applies
                THEN ~crashed' /\ ret' = 0 /\ SentOnly("FT_ABORT_BROADCAST_TXN")
                ELSE NoPutMsg(calls') /\ fts' = fts
             /\ \A f \in FileIds :
                   fts'[f].root_xid_that_created = fts[f].root_xid_that_created]_vars

\* A resetting broadcast committed under a nested txn: the tree's root xid is the outer one
C22_Witness ==
    /\ Called("toku_commit_cmdupdatebroadcast") /\ last.is_resetting_op
    /\ txn.xids = <<3, 4>>
    /\ Len(fts[last.filenum].msgs) = 1
    /\ fts[last.filenum].msgs[1].type = "FT_COMMIT_BROADCAST_ALL"
    /\ fts[last.filenum].root_xid_that_created = 3

\* C23: the commit of a load entry whose old file is present first fsyncs the log up to
\* txn.do_fsync_lsn and only then marks the old cachefile unlink-on-close, and it marks it
\* only if it is not marked already: a marked cachefile is not marked a second time
C23_LoadCommitFsyncsThenMarksOnce ==
    [][(JustCalled("toku_commit_load") /\ cachefiles[last'.filenum].present) =>
          /\ ~crashed' /\ ret' = 0
          /\ calls'[1].fn = "toku_logger_fsync_if_lsn_not_fsynced"
          /\ calls'[1].lsn = txn.do_fsync_lsn
          /\ fsynced_lsn' >= txn.do_fsync_lsn
          /\ IF cachefiles[last'.filenum].unlink_on_close
             THEN /\ Len(calls') = 1
                  /\ cachefiles' = cachefiles
             ELSE /\ Len(calls') = 2
                  /\ calls'[2].fn = "toku_cachefile_unlink_on_close"
                  /\ calls'[2].filenum = last'.filenum
                  /\ calls'[2].fsynced >= txn.do_fsync_lsn
                  /\ cachefiles' = [cachefiles EXCEPT ![last'.filenum].unlink_on_close = TRUE]]_vars

\* A load committed over an old file already marked: the log is fsynced, no second mark
C23_Witness ==
    /\ Called("toku_commit_load")
    /\ cachefiles[last.filenum].unlink_on_close
    /\ txn.do_fsync_lsn = 2
    /\ fsynced_lsn = 2
    /\ Len(calls) = 1
    /\ calls[1].fn = "toku_logger_fsync_if_lsn_not_fsynced"
    /\ calls[1].fsynced < 2

\* C24: the abort of a load entry removes the new file by exactly one of two routes and
\* returns success: a cachefile found for new_iname is marked unlink-on-close and no unlink()
\* is made; with none found the path is unlinked, where success and ENOENT are tolerated and
\* any other errno is fatal
C24_LoadAbortRemovesNewFile ==
    [][JustCalled("toku_rollback_load") =>
          IF cachefiles[last'.filenum].present
          THEN /\ ~crashed' /\ ret' = 0
               /\ Len(calls') = 1
               /\ calls'[1].fn = "toku_cachefile_unlink_on_close"
               /\ calls'[1].filenum = last'.filenum
               /\ cachefiles' = [cachefiles EXCEPT ![last'.filenum].unlink_on_close = TRUE]
          ELSE /\ Len(calls') = 1
               /\ calls'[1].fn = "unlink"
               /\ calls'[1].filenum = last'.filenum
               /\ cachefiles' = cachefiles
               /\ IF last'.unlink_errno \in {0, ENOENT}
                  THEN ~crashed' /\ ret' = 0
                  ELSE crashed']_vars

\* A load aborted outside recovery whose new file was never there
C24_Witness ==
    /\ Called("toku_rollback_load")
    /\ ~txn.for_recovery
    /\ ~cachefiles[last.filenum].present
    /\ last.unlink_errno = ENOENT
    /\ Len(calls) = 1 /\ calls[1].fn = "unlink"
    /\ ret = 0 /\ ~crashed

\* C25: a message-emitting entry function whose FILENUM has no tree open in txn.open_fts
\* returns success, with no message sent and no tree touched, when the txn is for recovery,
\* and fails an assertion when it is not; this is so whatever oplsn is, the lookup coming
\* before the recovery guard and before the message is built
C25_NoOpenTreeToleratedInRecoveryOnly ==
    [][(\E op \in MessageOps : JustCalled(op)) /\ last'.filenum \notin txn.open_fts =>
          /\ calls' = <<>>
          /\ fts' = fts
          /\ cachefiles' = cachefiles
          /\ IF txn.for_recovery THEN ~crashed' /\ ret' = 0 ELSE crashed']_vars

\* A replayed abort of an insert on a tree that is not open, in recovery
C25_Witness ==
    /\ Called("toku_rollback_cmdinsert")
    /\ txn.for_recovery
    /\ last.filenum \notin txn.open_fts
    /\ last.oplsn > 0
    /\ calls = <<>>
    /\ ret = 0 /\ ~crashed

C25_WitnessFatal ==
    /\ Called("toku_commit_cmdupdatebroadcast")
    /\ ~txn.for_recovery
    /\ last.filenum \notin txn.open_fts
    /\ crashed

-----------------------------------------------------------------------------
(***************************************************************************)
(* The read-view registry (src/storage/innobase/read/read0read.cc).        *)
(* A ReadView is a record; its methods are operators from the view (and    *)
(* trx_sys as it stands) to the view after the call.  What runs under      *)
(* trx_sys.mutex is one step; what the code does outside the mutex (the    *)
(* set_open of the fast path of view_open, the copy_complete of            *)
(* clone_oldest_view) is a step of its own, so that other threads run in   *)
(* between.  ut_ad() is compiled out of a release build: the conditions it *)
(* states are checked as properties, never assumed.                        *)
(***************************************************************************)

(* ids_t: the elements of the array, in order *)

\* std::upper_bound(begin, end, value), the bisection of the library: on an ascending range
\* the first position holding more than value; first and len are the range still searched
RECURSIVE upper_bound_in(_, _, _, _)
upper_bound_in(ids, value, first, len) ==
    IF len <= 0 THEN first
    ELSE LET half == len \div 2
             middle == first + half
         IN  IF value < ids[middle]
             THEN upper_bound_in(ids, value, first, half)
             ELSE upper_bound_in(ids, value, middle + 1, len - half - 1)

upper_bound(ids, value) == upper_bound_in(ids, value, 1, Len(ids))

\* std::lower_bound taken for the first position holding more than value
lower_bound_past_equal(ids, value) == upper_bound_in(ids, value, 1, Len(ids))

\* std::lower_bound(begin, end, value), the bisection of the library: on an ascending range
\* the first position holding value or more
RECURSIVE lower_bound_in(_, _, _, _)
lower_bound_in(ids, value, first, len) ==
    IF len <= 0 THEN first
    ELSE LET half == len \div 2
             middle == first + half
         IN  IF ids[middle] < value
             THEN lower_bound_in(ids, value, middle + 1, len - half - 1)
             ELSE lower_bound_in(ids, value, first, half)

lower_bound(ids, value) == lower_bound_in(ids, value, 1, Len(ids))

push_back(ids, value) == Append(ids, value)

push_back_always(ids, value) == Append(ids, value)

\* ReadView::ids_t::insert that writes the value over the slot it found
insert_over_slot(ids, value) ==
    IF Len(ids) = 0 \/ ids[Len(ids)] < value
    THEN push_back(ids, value)
    ELSE LET ub == upper_bound(ids, value)
         IN  IF ub = Len(ids) + 1
             THEN push_back(ids, value)
             ELSE SubSeq(ids, 1, ub - 1) \o <<value>> \o SubSeq(ids, ub + 1, Len(ids))

\* ReadView::ids_t::insert
insert(ids, value) ==
    IF Len(ids) = 0 \/ ids[Len(ids)] < value
    THEN push_back(ids, value)
    ELSE LET ub == upper_bound(ids, value)
         IN  IF ub = Len(ids) + 1
             THEN push_back(ids, value)
             ELSE SubSeq(ids, 1, ub - 1) \o <<value>> \o SubSeq(ids, ub, Len(ids))

(* ReadView *)

\* ReadView::copy_trx_ids that leaves a slot out whether or not there is a creator
copy_trx_ids_skip_always(view, trx_ids) ==
    LET i == lower_bound(trx_ids, view.creator_trx_id)
        copied == SubSeq(trx_ids, 1, i - 1) \o SubSeq(trx_ids, i + 1, Len(trx_ids))
    IN  IF Len(copied) = 0
        THEN [view EXCEPT !.ids = <<>>]
        ELSE [view EXCEPT !.ids = copied, !.up_limit_id = copied[1]]

\* ReadView::copy_trx_ids: trx_ids without the creator's own id
copy_trx_ids(view, trx_ids) ==
    LET size == IF view.creator_trx_id > 0 THEN Len(trx_ids) - 1 ELSE Len(trx_ids)
    IN  IF size = 0
        THEN [view EXCEPT !.ids = <<>>]
        ELSE LET i == lower_bound(trx_ids, view.creator_trx_id)
                 copied == IF view.creator_trx_id > 0
                           THEN SubSeq(trx_ids, 1, i - 1) \o SubSeq(trx_ids, i + 1, Len(trx_ids))
                           ELSE trx_ids
             IN  [view EXCEPT !.ids = copied, !.up_limit_id = copied[1]]

\* ReadView::prepare with the two limits taken from the wrong ends
prepare_limits_swapped(view, id) ==
    LET limits == [view EXCEPT !.creator_trx_id = id,
                               !.low_limit_no = max_trx_id,
                               !.low_limit_id = IF Len(rw_trx_ids) > 0 THEN rw_trx_ids[1] ELSE max_trx_id,
                               !.up_limit_id = max_trx_id]
    IN  [limits EXCEPT !.ids = rw_trx_ids]

\* ReadView::prepare with max_trx_id as it stood before the youngest of rw_trx_ids started:
\* the two reads not in one critical section
prepare_max_read_early(view, id) ==
    LET early == IF Len(rw_trx_ids) > 0 THEN rw_trx_ids[Len(rw_trx_ids)] ELSE max_trx_id
        limits == [view EXCEPT !.creator_trx_id = id,
                               !.low_limit_no = early,
                               !.low_limit_id = early,
                               !.up_limit_id = early]
        copied == IF Len(rw_trx_ids) > 0
                  THEN copy_trx_ids(limits, rw_trx_ids)
                  ELSE [limits EXCEPT !.ids = <<>>]
    IN  IF Len(serialisation_list) > 0 /\ serialisation_list[1].no < copied.low_limit_no
        THEN [copied EXCEPT !.low_limit_no = serialisation_list[1].no]
        ELSE copied

\* ReadView::prepare with the head of the serialisation list lowering low_limit_id
\* where it should lower low_limit_no
prepare_no_into_id(view, id) ==
    LET limits == [view EXCEPT !.creator_trx_id = id,
                               !.low_limit_no = max_trx_id,
                               !.low_limit_id = max_trx_id,
                               !.up_limit_id = max_trx_id]
        copied == IF Len(rw_trx_ids) > 0
                  THEN copy_trx_ids(limits, rw_trx_ids)
                  ELSE [limits EXCEPT !.ids = <<>>]
    IN  IF Len(serialisation_list) > 0 /\ serialisation_list[1].no < copied.low_limit_no
        THEN [copied EXCEPT !.low_limit_id = serialisation_list[1].no]
        ELSE copied

\* ReadView::prepare
prepare(view, id) ==
    LET limits == [view EXCEPT !.creator_trx_id = id,
                               !.low_limit_no = max_trx_id,
                               !.low_limit_id = max_trx_id,
                               !.up_limit_id = max_trx_id]
        copied == IF Len(rw_trx_ids) > 0
                  THEN copy_trx_ids(limits, rw_trx_ids)
                  ELSE [limits EXCEPT !.ids = <<>>]
    IN  IF Len(serialisation_list) > 0 /\ serialisation_list[1].no < copied.low_limit_no
        THEN [copied EXCEPT !.low_limit_no = serialisation_list[1].no]
        ELSE copied

\* ReadView::copy_prepare
copy_prepare(view, other) ==
    [view EXCEPT !.ids = other.ids,
                 !.up_limit_id = other.up_limit_id,
                 !.low_limit_no = other.low_limit_no,
                 !.low_limit_id = other.low_limit_id,
                 !.creator_trx_id = other.creator_trx_id]

Min(a, b) == IF a < b THEN a ELSE b

\* ReadView::copy_complete that forgets the creator
copy_complete_drop_creator(view) ==
    [view EXCEPT !.creator_trx_id = 0]

\* ReadView::copy_complete
copy_complete(view) ==
    LET added == IF view.creator_trx_id > 0
                 THEN [view EXCEPT !.ids = insert(view.ids, view.creator_trx_id)]
                 ELSE view
        limited == IF Len(added.ids) > 0
                   THEN [added EXCEPT !.up_limit_id = Min(added.ids[1], added.up_limit_id)]
                   ELSE added
    IN  [limited EXCEPT !.creator_trx_id = 0]

\* ReadView::sees
sees(view, xid) ==
    IF xid < view.up_limit_id THEN TRUE
    ELSE IF xid >= view.low_limit_id THEN FALSE
    ELSE ~(\E i \in 1 .. Len(view.ids) : view.ids[i] = xid)

\* ReadView::empty
empty(view) == Len(view.ids) = 0 /\ view.creator_trx_id = 0

\* ReadView::le
le(view, rhs) == view.low_limit_no <= rhs.low_limit_no

(* MVCC *)

\* UT_LIST_REMOVE(m_views, view)
UT_LIST_REMOVE(list, t) == SelectSeq(list, LAMBDA u : u # t)

\* UT_LIST_ADD_FIRST(m_views, view)
UT_LIST_ADD_FIRST(list, t) == <<t>> \o list

UT_LIST_ADD_LAST(list, t) == Append(list, t)

\* What trx_sys holds as a view is filled
Filled(how, from) ==
    [how |-> how, max_trx_id |-> max_trx_id, rw_trx_ids |-> rw_trx_ids,
     serialisation_list |-> serialisation_list, from |-> from, reused |-> FALSE]

\* clone_oldest_view's scan: the open view nearest the tail of m_views, 0 when none is open
oldest_open_view ==
    LET open_at == {i \in 1 .. Len(m_views) : views[m_views[i]].open}
    IN  IF open_at = {} THEN 0
        ELSE m_views[CHOOSE i \in open_at : \A j \in open_at : j <= i]

\* The fast path taken without the look at the view's ids
can_reuse_skip_empty_check(t) ==
    /\ views[t].registered
    /\ trxs[t].autocommit_non_locking
    /\ views[t].low_limit_id = max_trx_id

\* The fast path taken without the look at max_trx_id
can_reuse_skip_max_check(t) ==
    /\ views[t].registered
    /\ trxs[t].autocommit_non_locking
    /\ empty(views[t])

\* The fast path of MVCC::view_open applies
can_reuse(t) ==
    /\ views[t].registered
    /\ trxs[t].autocommit_non_locking
    /\ empty(views[t])
    /\ views[t].low_limit_id = max_trx_id

InViewOpen(t) == ~srv_read_only_mode /\ ~views[t].open /\ pc[t] = "idle"

\* MVCC::view_open: read-only engine, or the view is open already
view_open_return ==
    \E t \in Trxs :
        /\ pc[t] = "idle"
        /\ srv_read_only_mode \/ views[t].open
        /\ UNCHANGED vars

\* MVCC::view_open, fast path: the conditions hold as they are read
view_open_reuse_check ==
    \E t \in Trxs :
        /\ InViewOpen(t)
        /\ can_reuse(t)
        /\ pc' = [pc EXCEPT ![t] = "set_open"]
        /\ window' = [window EXCEPT ![t] = {}]
        /\ UNCHANGED <<traVars, vecVars, srv_read_only_mode, max_trx_id, rw_trx_ids, serialisation_list,
                       trxs, views, m_views, purge_view, prepared>>

\* MVCC::view_open, fast path: view.set_open(true), trx_sys.mutex not held
view_open_reuse_set_open ==
    \E t \in Trxs :
        /\ pc[t] = "set_open"
        /\ views' = [views EXCEPT ![t].open = TRUE]
        /\ pc' = [pc EXCEPT ![t] = "idle"]
        /\ prepared' = [prepared EXCEPT ![t].reused = TRUE]
        /\ UNCHANGED <<traVars, vecVars, srv_read_only_mode, max_trx_id, rw_trx_ids, serialisation_list,
                       trxs, m_views, purge_view, window>>

\* MVCC::view_open, slow path that puts the view at the tail
view_open_slow_add_last(t) ==
    /\ views' = [views EXCEPT ![t] = [prepare(@, trxs[t].id) EXCEPT
                                          !.registered = TRUE, !.open = TRUE]]
    /\ m_views' = UT_LIST_ADD_LAST(UT_LIST_REMOVE(m_views, t), t)

\* MVCC::view_open, slow path that does not take a registered view out first
view_open_slow_no_remove(t) ==
    /\ views' = [views EXCEPT ![t] = [prepare(@, trxs[t].id) EXCEPT
                                          !.registered = TRUE, !.open = TRUE]]
    /\ m_views' = UT_LIST_ADD_FIRST(m_views, t)

\* MVCC::view_open, slow path: the whole of it runs under trx_sys.mutex
view_open_slow(t) ==
    /\ views' = [views EXCEPT ![t] = [prepare(@, trxs[t].id) EXCEPT
                                          !.registered = TRUE, !.open = TRUE]]
    /\ m_views' = UT_LIST_ADD_FIRST(IF views[t].registered
                                    THEN UT_LIST_REMOVE(m_views, t)
                                    ELSE m_views, t)

view_open ==
    \E t \in Trxs :
        /\ InViewOpen(t)
        /\ ~can_reuse(t)
        /\ view_open_slow(t)
        /\ prepared' = [prepared EXCEPT ![t] = Filled("prepare", ReadView0)]
        /\ window' = [window EXCEPT ![t] = {}]
        /\ UNCHANGED <<traVars, vecVars, srv_read_only_mode, max_trx_id, rw_trx_ids, serialisation_list,
                       trxs, purge_view, pc>>

\* The close of a view: set_open(false), the view stays in m_views
view_close ==
    \E t \in Trxs :
        /\ pc[t] = "idle"
        /\ views[t].open
        /\ views' = [views EXCEPT ![t].open = FALSE]
        /\ UNCHANGED <<traVars, vecVars, srv_read_only_mode, max_trx_id, rw_trx_ids, serialisation_list,
                       trxs, m_views, purge_view, pc, prepared, window>>

\* The end of a closed view: out of m_views under trx_sys.mutex
view_destroy ==
    \E t \in Trxs :
        /\ pc[t] = "idle"
        /\ views[t].registered /\ ~views[t].open
        /\ trxs[t].id = 0
        /\ views' = [views EXCEPT ![t].registered = FALSE]
        /\ m_views' = UT_LIST_REMOVE(m_views, t)
        /\ UNCHANGED <<traVars, vecVars, srv_read_only_mode, max_trx_id, rw_trx_ids, serialisation_list,
                       trxs, purge_view, pc, prepared, window>>

\* MVCC::clone_oldest_view, under trx_sys.mutex: copy_prepare from the oldest open view,
\* or prepare(0) when no view is open
clone_oldest_view ==
    /\ pc[0] = "idle"
    /\ LET found == oldest_open_view
       IN  IF found # 0
           THEN /\ purge_view' = copy_prepare(purge_view, views[found])
                /\ prepared' = [prepared EXCEPT ![0] = Filled("copy_prepare", views[found])]
                /\ pc' = [pc EXCEPT ![0] = "copy_complete"]
           ELSE /\ purge_view' = prepare(purge_view, 0)
                /\ prepared' = [prepared EXCEPT ![0] = Filled("prepare", ReadView0)]
                /\ pc' = pc
    /\ UNCHANGED <<traVars, vecVars, srv_read_only_mode, max_trx_id, rw_trx_ids, serialisation_list,
                   trxs, views, m_views, window>>

\* MVCC::clone_oldest_view, after mutex_exit: view->copy_complete()
clone_oldest_view_complete ==
    /\ pc[0] = "copy_complete"
    /\ purge_view' = copy_complete(purge_view)
    /\ prepared' = [prepared EXCEPT ![0].how = "clone"]
    /\ pc' = [pc EXCEPT ![0] = "idle"]
    /\ UNCHANGED <<traVars, vecVars, srv_read_only_mode, max_trx_id, rw_trx_ids, serialisation_list,
                   trxs, views, m_views, window>>

(* trx_sys: the read-write trxs the views are taken of *)

\* A trx turns read-write: it takes the next id and joins rw_trx_ids, under trx_sys.mutex
trx_start_rw ==
    \E t \in Trxs :
        /\ ~srv_read_only_mode
        /\ pc[t] = "idle"
        /\ ~trxs[t].autocommit_non_locking
        /\ trxs[t].id = 0
        /\ ~views[t].open
        /\ max_trx_id < MaxTrxId
        /\ trxs' = [trxs EXCEPT ![t].id = max_trx_id]
        /\ rw_trx_ids' = Append(rw_trx_ids, max_trx_id)
        /\ max_trx_id' = max_trx_id + 1
        /\ window' = [u \in Trxs |-> IF pc[u] = "set_open"
                                     THEN window[u] \cup {max_trx_id} ELSE window[u]]
        /\ UNCHANGED <<traVars, vecVars, srv_read_only_mode, serialisation_list, views, m_views,
                       purge_view, pc, prepared>>

\* A read-write trx starts to commit: it takes the next number as its trx->no and joins
\* the serialisation list, under trx_sys.mutex
trx_serialise ==
    \E t \in Trxs :
        /\ pc[t] = "idle"
        /\ trxs[t].id > 0
        /\ trxs[t].no = 0
        /\ max_trx_id < MaxTrxId
        /\ trxs' = [trxs EXCEPT ![t].no = max_trx_id]
        /\ serialisation_list' = Append(serialisation_list, [trx |-> t, no |-> max_trx_id])
        /\ max_trx_id' = max_trx_id + 1
        /\ UNCHANGED <<traVars, vecVars, srv_read_only_mode, rw_trx_ids, views, m_views,
                       purge_view, pc, prepared, window>>

\* The commit is done: the trx leaves the serialisation list and rw_trx_ids, its view closes
trx_commit ==
    \E t \in Trxs :
        /\ pc[t] = "idle"
        /\ trxs[t].no > 0
        /\ serialisation_list' = SelectSeq(serialisation_list, LAMBDA e : e.trx # t)
        /\ rw_trx_ids' = SelectSeq(rw_trx_ids, LAMBDA x : x # trxs[t].id)
        /\ trxs' = [trxs EXCEPT ![t].id = 0, ![t].no = 0]
        /\ views' = [views EXCEPT ![t].open = FALSE]
        /\ UNCHANGED <<traVars, vecVars, srv_read_only_mode, max_trx_id, m_views,
                       purge_view, pc, prepared, window>>

\* The registry at start-up; the trxs are alike, so the autocommit non-locking ones come first
MvccInit ==
    /\ txn = [for_recovery |-> FALSE, do_fsync_lsn |-> 0, xids |-> <<3>>, open_fts |-> {},
              spilled_head |-> ROLLBACK_NONE, spilled_tail |-> ROLLBACK_NONE]
    /\ fsynced_lsn = 0
    /\ cachefiles = [f \in FileIds |-> [present |-> FALSE, unlink_on_close |-> FALSE]]
    /\ fts = [f \in FileIds |-> FtInit(0)]
    /\ rollback_logs = <<>>
    /\ calls = <<>>
    /\ applied = <<>>
    /\ ret = 0
    /\ crashed = FALSE
    /\ last = LastRec("none")
    /\ srv_read_only_mode \in BOOLEAN
    /\ max_trx_id = 1
    /\ rw_trx_ids = <<>>
    /\ serialisation_list = <<>>
    /\ \E n \in 0 .. MaxTrx :
         trxs = [t \in Trxs |-> [id |-> 0, no |-> 0, autocommit_non_locking |-> t <= n]]
    /\ views = [t \in Trxs |-> ReadView0]
    /\ m_views = <<>>
    /\ purge_view = ReadView0
    /\ pc = [t \in 0 .. MaxTrx |-> "idle"]
    /\ prepared = [t \in 0 .. MaxTrx |-> Prepared0]
    /\ window = [t \in Trxs |-> {}]
    /\ VecAtRest

MvccNext ==
    \/ view_open_return
    \/ view_open_reuse_check
    \/ view_open_reuse_set_open
    \/ view_open
    \/ view_close
    \/ view_destroy
    \/ clone_oldest_view
    \/ clone_oldest_view_complete
    \/ trx_start_rw
    \/ trx_serialise
    \/ trx_commit

MvccSpec == MvccInit /\ [][MvccNext]_vars

MvccTypeOK ==
    /\ max_trx_id \in 1 .. MaxTrxId
    /\ \A i \in 1 .. Len(rw_trx_ids) : rw_trx_ids[i] \in 1 .. max_trx_id - 1
    /\ \A i \in 1 .. Len(rw_trx_ids) - 1 : rw_trx_ids[i] < rw_trx_ids[i + 1]
    /\ \A i \in 1 .. Len(serialisation_list) - 1 :
          serialisation_list[i].no < serialisation_list[i + 1].no
    /\ \A i \in 1 .. Len(m_views) : m_views[i] \in Trxs /\ views[m_views[i]].registered
    /\ \A t \in Trxs : views[t].registered <=> \E i \in 1 .. Len(m_views) : m_views[i] = t

-----------------------------------------------------------------------------
(* Properties of the read-view registry (MvccSpec) *)

Xids == 0 .. MaxTrxId

IdSet(ids) == {ids[i] : i \in 1 .. Len(ids)}

StrictlyAscending(ids) == \A i \in 1 .. Len(ids) - 1 : ids[i] < ids[i + 1]

\* C13: after prepare and after copy_complete a view has up_limit_id <= low_limit_id, whatever
\* rw_trx_ids and max_trx_id were
C13_UpLimitAtMostLowLimit ==
    /\ \A t \in Trxs : prepared[t].how = "prepare" =>
          views[t].up_limit_id <= views[t].low_limit_id
    /\ prepared[0].how \in {"prepare", "clone"} =>
          purge_view.up_limit_id <= purge_view.low_limit_id

C13_Witness ==
    /\ prepared[0].how = "clone"
    /\ prepared[0].from.creator_trx_id > 0
    /\ purge_view.up_limit_id < prepared[0].from.up_limit_id
    /\ \E t \in Trxs : /\ prepared[t].how = "prepare"
                       /\ Len(views[t].ids) > 0
                       /\ views[t].up_limit_id < views[t].low_limit_id

\* C14: from head to tail m_views is non-increasing in low_limit_no, over all its views, open
\* or closed, after any sequence of view_open (slow or fast path), close and clone_oldest_view
C14_ViewsOrderedByLowLimitNo ==
    \A i \in 1 .. Len(m_views) : \A j \in i + 1 .. Len(m_views) :
        le(views[m_views[j]], views[m_views[i]])

C14_Witness ==
    /\ Len(m_views) = 2
    /\ views[m_views[1]].open
    /\ ~views[m_views[2]].open
    /\ views[m_views[2]].low_limit_no < views[m_views[1]].low_limit_no
    /\ prepared[0].how = "clone"

\* C15 (as claimed): when a view is open, the clone sees exactly the xids the oldest open view
\* sees, whatever the xid
C15_CloneSeesWhatOldestSees ==
    prepared[0].how = "clone" =>
        \A xid \in Xids : sees(purge_view, xid) = sees(prepared[0].from, xid)

\* C15 (amended): when a view is open, the clone sees exactly the xids the oldest open view
\* sees, but for that view's creator: the view sees its creator, the clone does not
C15_CloneSeesWhatOldestSeesButCreator ==
    prepared[0].how = "clone" =>
        LET oldest == prepared[0].from
        IN  /\ \A xid \in Xids \ {oldest.creator_trx_id} :
                  sees(purge_view, xid) = sees(oldest, xid)
            /\ oldest.creator_trx_id > 0 =>
                  /\ sees(oldest, oldest.creator_trx_id)
                  /\ ~sees(purge_view, oldest.creator_trx_id)

C15_Witness ==
    /\ prepared[0].how = "clone"
    /\ prepared[0].from.creator_trx_id > 0
    /\ Len(prepared[0].from.ids) > 0
    /\ sees(prepared[0].from, prepared[0].from.creator_trx_id)
    /\ ~sees(purge_view, prepared[0].from.creator_trx_id)

\* C16 (as claimed): under any interleaving of view_open (fast path included), close, the start
\* and commit of read-write trxs and clone_oldest_view, every open view has a low_limit_no at
\* least that of the purge view as last cloned
C16_OpenViewsNotBelowPurge ==
    prepared[0].how # "none" =>
        \A t \in Trxs : views[t].open => purge_view.low_limit_no <= views[t].low_limit_no

\* What does hold of the horizon: every open view but one reopened on the fast path while an
\* id was handed out between its check of max_trx_id and its set_open is at or above purge
OpenViewsNotBelowPurgeUnlessRaced ==
    prepared[0].how # "none" =>
        \A t \in Trxs : views[t].open /\ window[t] = {} =>
            purge_view.low_limit_no <= views[t].low_limit_no

\* C17 (as claimed): a read-write trx that starts between the fast path's read of max_trx_id
\* and its set_open has an xid above the view's low_limit_id
C17_WindowXidsAboveLowLimit ==
    \A t \in Trxs : \A xid \in window[t] : xid > views[t].low_limit_id

\* C17 (amended): a read-write trx that starts between the fast path's read of max_trx_id and
\* its set_open has an xid at or above the view's low_limit_id, the first of them the
\* low_limit_id itself, and the view sees none of them
C17_WindowXidsNotBelowLowLimit ==
    \A t \in Trxs :
        /\ \A xid \in window[t] : xid >= views[t].low_limit_id /\ ~sees(views[t], xid)
        /\ window[t] # {} => views[t].low_limit_id \in window[t]

C17_Witness ==
    \E t \in Trxs :
        /\ views[t].open
        /\ pc[t] = "idle"
        /\ Cardinality(window[t]) = 2
        /\ views[t].low_limit_id \in window[t]

\* C18: after copy_prepare from a view and copy_complete the clone's ids are that view's ids
\* together with its creator_trx_id when positive, strictly ascending and so without
\* duplicates, and the clone's creator_trx_id is 0
C18_CloneIdsAreSourceIdsAndCreator ==
    prepared[0].how = "clone" =>
        LET from == prepared[0].from
        IN  /\ IdSet(purge_view.ids) =
                  IdSet(from.ids) \cup (IF from.creator_trx_id > 0
                                        THEN {from.creator_trx_id} ELSE {})
            /\ StrictlyAscending(purge_view.ids)
            /\ purge_view.creator_trx_id = 0

C18_Witness ==
    /\ prepared[0].how = "clone"
    /\ prepared[0].from.creator_trx_id > 0
    /\ Len(prepared[0].from.ids) > 0
    /\ prepared[0].from.creator_trx_id < prepared[0].from.ids[1]
    /\ Len(purge_view.ids) = Len(prepared[0].from.ids) + 1

\* C20: with no view open clone_oldest_view fills the view as prepare(0) does: creator_trx_id
\* 0, ids the rw_trx_ids of that moment, low_limit_id the max_trx_id of that moment; with
\* rw_trx_ids and the serialisation list both empty, ids is empty and up_limit_id,
\* low_limit_id and low_limit_no are all max_trx_id
C20_CloneWithNoOpenViewIsFresh ==
    prepared[0].how = "prepare" =>
        /\ purge_view.creator_trx_id = 0
        /\ purge_view.ids = prepared[0].rw_trx_ids
        /\ purge_view.low_limit_id = prepared[0].max_trx_id
        /\ (prepared[0].rw_trx_ids = <<>> /\ prepared[0].serialisation_list = <<>>) =>
              /\ purge_view.ids = <<>>
              /\ purge_view.up_limit_id = prepared[0].max_trx_id
              /\ purge_view.low_limit_id = prepared[0].max_trx_id
              /\ purge_view.low_limit_no = prepared[0].max_trx_id

C20_Witness ==
    /\ prepared[0].how = "prepare"
    /\ Len(purge_view.ids) = 2
    /\ Len(prepared[0].serialisation_list) > 0
    /\ purge_view.low_limit_no < purge_view.low_limit_id
    /\ Len(m_views) > 0

-----------------------------------------------------------------------------
(***************************************************************************)
(* The snapshot functions over every trx_sys: rw_trx_ids is any ascending  *)
(* array of ids below max_trx_id (the trxs of other sessions included),    *)
(* the serialisation list is empty or headed by a trx of another session,  *)
(* and trx 1 is read-only or owns one of the ids.  The views are opened    *)
(* and cloned by the actions of the registry.                              *)
(***************************************************************************)

RECURSIVE AscendingSeq(_)
AscendingSeq(S) ==
    IF S = {} THEN <<>>
    ELSE LET least == CHOOSE x \in S : \A y \in S : x <= y
         IN  <<least>> \o AscendingSeq(S \ {least})

SnapshotInit ==
    /\ txn = [for_recovery |-> FALSE, do_fsync_lsn |-> 0, xids |-> <<3>>, open_fts |-> {},
              spilled_head |-> ROLLBACK_NONE, spilled_tail |-> ROLLBACK_NONE]
    /\ fsynced_lsn = 0
    /\ cachefiles = [f \in FileIds |-> [present |-> FALSE, unlink_on_close |-> FALSE]]
    /\ fts = [f \in FileIds |-> FtInit(0)]
    /\ rollback_logs = <<>>
    /\ calls = <<>>
    /\ applied = <<>>
    /\ ret = 0
    /\ crashed = FALSE
    /\ last = LastRec("none")
    /\ srv_read_only_mode = FALSE
    /\ max_trx_id \in 1 .. MaxTrxId
    /\ \E S \in SUBSET (1 .. max_trx_id - 1) : rw_trx_ids = AscendingSeq(S)
    /\ \/ serialisation_list = <<>>
       \/ /\ Len(rw_trx_ids) > 0
          /\ \E n \in rw_trx_ids[1] + 1 .. max_trx_id - 1 :
                /\ n \notin {rw_trx_ids[i] : i \in 1 .. Len(rw_trx_ids)}
                /\ serialisation_list = <<[trx |-> 0, no |-> n]>>
    /\ \E id \in {0} \cup {rw_trx_ids[i] : i \in 1 .. Len(rw_trx_ids)} :
          trxs = [t \in Trxs |-> [id |-> IF t = 1 THEN id ELSE 0, no |-> 0,
                                  autocommit_non_locking |-> FALSE]]
    /\ views = [t \in Trxs |-> ReadView0]
    /\ m_views = <<>>
    /\ purge_view = ReadView0
    /\ pc = [t \in 0 .. MaxTrx |-> "idle"]
    /\ prepared = [t \in 0 .. MaxTrx |-> Prepared0]
    /\ window = [t \in Trxs |-> {}]
    /\ VecAtRest

SnapshotNext ==
    \/ view_open
    \/ view_close
    \/ clone_oldest_view
    \/ clone_oldest_view_complete

SnapshotSpec == SnapshotInit /\ [][SnapshotNext]_vars

\* C19: prepare(id) with id > 0 present in ascending rw_trx_ids gives ids equal to rw_trx_ids
\* without id, in the same order, and up_limit_id the smallest id left, or max_trx_id as
\* prepare set it when none is left
C19_PrepareLeavesCreatorOut ==
    \A t \in Trxs :
        (prepared[t].how = "prepare" /\ views[t].creator_trx_id > 0) =>
            LET rest == SelectSeq(prepared[t].rw_trx_ids,
                                  LAMBDA x : x # views[t].creator_trx_id)
            IN  /\ views[t].ids = rest
                /\ views[t].up_limit_id =
                      IF Len(rest) > 0 THEN rest[1] ELSE prepared[t].max_trx_id

C19_Witness ==
    \E t \in Trxs :
        /\ prepared[t].how = "prepare"
        /\ Len(prepared[t].rw_trx_ids) = 3
        /\ views[t].creator_trx_id = prepared[t].rw_trx_ids[2]
        /\ views[t].ids = <<prepared[t].rw_trx_ids[1], prepared[t].rw_trx_ids[3]>>
        /\ views[t].up_limit_id = prepared[t].rw_trx_ids[1]

-----------------------------------------------------------------------------
(***************************************************************************)
(* ReadView::ids_t on its own: an array that starts empty, or ascending as *)
(* assign() leaves it from rw_trx_ids, and is then called with any values. *)
(***************************************************************************)

Vals == 1 .. MaxTrxId

\* ReadView::ids_t::reserve: a larger array when n is beyond the capacity, the elements
\* moved across
ids_t_reserve(v, n) ==
    IF n <= v.reserved THEN v
    ELSE [ids |-> SubSeq(v.ids, 1, Len(v.ids)),
          reserved |-> IF n < MIN_TRX_IDS THEN MIN_TRX_IDS ELSE n]

\* ReadView::ids_t::insert, the reserve(size() + 1) it starts with included
ids_t_insert(v, value) ==
    LET grown == ids_t_reserve(v, Len(v.ids) + 1)
    IN  [grown EXCEPT !.ids = insert(grown.ids, value)]

\* The rollback application and the registry, idle
TraAtRest ==
    /\ txn = [for_recovery |-> FALSE, do_fsync_lsn |-> 0, xids |-> <<3>>, open_fts |-> {},
              spilled_head |-> ROLLBACK_NONE, spilled_tail |-> ROLLBACK_NONE]
    /\ fsynced_lsn = 0
    /\ cachefiles = [f \in FileIds |-> [present |-> FALSE, unlink_on_close |-> FALSE]]
    /\ fts = [f \in FileIds |-> FtInit(0)]
    /\ rollback_logs = <<>>
    /\ calls = <<>>
    /\ applied = <<>>
    /\ ret = 0
    /\ crashed = FALSE
    /\ last = LastRec("none")

VecInit ==
    /\ TraAtRest
    /\ MvccAtRest
    /\ \E S \in SUBSET Vals :
          /\ Cardinality(S) <= MaxIds - 2
          /\ m_ids = AscendingSeq(S)
          /\ ids_start = m_ids
          /\ m_reserved \in IF S = {} THEN {0, MIN_TRX_IDS} ELSE {MIN_TRX_IDS}
    /\ inserted = <<>>
    /\ outside = FALSE

vec_insert ==
    \E value \in Vals :
        /\ Len(m_ids) < MaxIds
        /\ LET v == ids_t_insert([ids |-> m_ids, reserved |-> m_reserved], value)
           IN  /\ m_ids' = v.ids
               /\ m_reserved' = v.reserved
        /\ inserted' = Append(inserted, value)
        /\ UNCHANGED <<traVars, mvccVars, ids_start, outside>>

VecNext == vec_insert

VecSpec == VecInit /\ [][VecNext]_vars

Count(ids, value) == Cardinality({i \in 1 .. Len(ids) : ids[i] = value})

NonDecreasing(ids) == \A i \in 1 .. Len(ids) - 1 : ids[i] <= ids[i + 1]

\* C21: after any sequence of insert calls with positive values on an empty or ascending
\* array, the array is in ascending order (strictly so when no value came twice) and holds
\* what it held before together with every inserted value, one more element per call;
\* insert(x) on an empty array gives <<x>>
C21_InsertKeepsOrderAndContents ==
    /\ NonDecreasing(m_ids)
    /\ (\A value \in Vals : Count(ids_start, value) + Count(inserted, value) <= 1) =>
          StrictlyAscending(m_ids)
    /\ \A value \in Vals :
          Count(m_ids, value) = Count(ids_start, value) + Count(inserted, value)
    /\ \A i \in 1 .. Len(m_ids) : m_ids[i] \in Vals
    /\ Len(m_ids) = Len(ids_start) + Len(inserted)
    /\ Len(m_ids) <= m_reserved
    /\ (ids_start = <<>> /\ Len(inserted) = 1) => m_ids = <<inserted[1]>>

C21_Witness ==
    /\ Len(ids_start) = 2
    /\ Len(inserted) = 2
    /\ inserted[2] < inserted[1]
    /\ m_ids[1] = inserted[2]
    /\ m_ids[3] = inserted[1]
    /\ StrictlyAscending(m_ids)

-----------------------------------------------------------------------------
(* Further properties of the read-view registry (MvccSpec) *)

\* The step is a slow-path view_open of trx t
SlowOpened(t) == ~views[t].open /\ views'[t].open /\ pc[t] = "idle" /\ trxs' = trxs

RegistryWellFormed ==
    /\ \A t \in Trxs : views[t].open => views[t].registered
    /\ \A i \in 1 .. Len(m_views) : views[m_views[i]].registered
    /\ \A t \in Trxs : views[t].registered =>
          Cardinality({i \in 1 .. Len(m_views) : m_views[i] = t}) = 1

\* C26: in every reachable state every open view is registered, every view in m_views is
\* registered and every registered view is in m_views exactly once; after a slow-path
\* view_open the trx's view is registered, open and at the head of m_views
C26_RegisteredOnceAndSlowOpenAtHead ==
    /\ []RegistryWellFormed
    /\ [][\A t \in Trxs : SlowOpened(t) =>
              /\ views'[t].registered
              /\ views'[t].open
              /\ m_views'[1] = t
              /\ Len(m_views') = Len(m_views) + (IF views[t].registered THEN 0 ELSE 1)]_vars

\* Both views registered, the one opened again by the slow path back at the head
C26_Witness ==
    /\ Len(m_views) = 2
    /\ m_views = <<1, 2>>
    /\ views[1].open
    /\ ~views[2].open
    /\ prepared[2].max_trx_id < prepared[1].max_trx_id
    /\ prepared[1].how = "prepare" /\ prepared[2].how = "prepare"

\* The step is the set_open of trx t's fast path, taken in a state where its check passes:
\* the check and the set_open as one atomic step
ReusedAtomically(t) == pc[t] = "set_open" /\ pc'[t] = "idle" /\ can_reuse(t)

\* C27: when view_open takes the fast path and the check and set_open are one atomic step,
\* the reopened view's ids, up_limit_id, low_limit_id and low_limit_no are what a slow-path
\* prepare at that moment would compute, and only the open flag changes: m_views is untouched
C27_ReuseEqualsPrepare ==
    [][\A t \in Trxs : ReusedAtomically(t) =>
          LET fresh == prepare(views[t], trxs[t].id)
          IN  /\ views'[t].ids = fresh.ids
              /\ views'[t].up_limit_id = fresh.up_limit_id
              /\ views'[t].low_limit_id = fresh.low_limit_id
              /\ views'[t].low_limit_no = fresh.low_limit_no
              /\ views'[t].creator_trx_id = fresh.creator_trx_id
              /\ views' = [views EXCEPT ![t].open = TRUE]
              /\ m_views' = m_views]_vars

\* A view opened again in place at the tail of m_views, a younger view ahead of it and
\* read-write trxs come and gone before it was filled
C27_Witness ==
    \E t \in Trxs :
        /\ views[t].open
        /\ prepared[t].reused
        /\ window[t] = {}
        /\ views[t].low_limit_id = max_trx_id
        /\ max_trx_id > 1
        /\ Len(m_views) = 2
        /\ m_views[2] = t

IdsBelowLowLimit(view) == \A i \in 1 .. Len(view.ids) : view.ids[i] < view.low_limit_id

\* The view is what one look at trx_sys gives: its low_limit_id and its ids are the
\* max_trx_id and the rw_trx_ids of the same moment
OnePrepare(view, at) ==
    /\ view.low_limit_id = at.max_trx_id
    /\ IdSet(view.ids) = IdSet(at.rw_trx_ids) \ {view.creator_trx_id}

\* The step is clone_oldest_view's copy_prepare of the open view it found
ClonedFrom(t) == pc[0] = "idle" /\ pc'[0] = "copy_complete" /\ oldest_open_view = t

\* C28: every id in a view filled by prepare is strictly below its low_limit_id, while
\* read-write trxs start and finish around it: max_trx_id and rw_trx_ids are of one moment.
\* The same holds for the view clone_oldest_view copies, which takes its ids and its
\* low_limit_id from one prepare of the view it copies
C28_IdsBelowLowLimit ==
    /\ [](\A t \in Trxs : prepared[t].how = "prepare" =>
             /\ IdsBelowLowLimit(views[t])
             /\ OnePrepare(views[t], prepared[t]))
    /\ [](/\ prepared[0].how = "prepare" =>
                IdsBelowLowLimit(purge_view) /\ OnePrepare(purge_view, prepared[0])
          /\ prepared[0].how \in {"copy_prepare", "clone"} => IdsBelowLowLimit(purge_view))
    /\ [][\A t \in Trxs : ClonedFrom(t) =>
             /\ purge_view'.ids = views[t].ids
             /\ purge_view'.low_limit_id = views[t].low_limit_id
             /\ purge_view'.creator_trx_id = views[t].creator_trx_id
             /\ OnePrepare(views[t], prepared[t])]_vars

\* A view with its creator's id and another's cloned, the youngest id right below
\* low_limit_id, and max_trx_id gone on since
C28_Witness ==
    /\ prepared[0].how = "clone"
    /\ Len(purge_view.ids) = 2
    /\ purge_view.ids[2] = purge_view.low_limit_id - 1
    /\ max_trx_id > purge_view.low_limit_id
    /\ \E t \in Trxs : /\ prepared[t].how = "prepare"
                       /\ Len(views[t].ids) > 0
                       /\ views[t].creator_trx_id > 0
                       /\ prepared[0].from = views[t]

\* C30: after prepare, and in the clone after copy_prepare and after copy_complete,
\* low_limit_no <= low_limit_id
C30_LowLimitNoAtMostLowLimitId ==
    /\ \A t \in Trxs : prepared[t].how = "prepare" =>
          views[t].low_limit_no <= views[t].low_limit_id
    /\ prepared[0].how \in {"prepare", "copy_prepare", "clone"} =>
          purge_view.low_limit_no <= purge_view.low_limit_id

\* A view filled while a trx was in the serialisation list, and its clone: low_limit_no
\* strictly below low_limit_id in both
C30_Witness ==
    /\ prepared[0].how = "clone"
    /\ purge_view.low_limit_no < purge_view.low_limit_id
    /\ \E t \in Trxs : /\ prepared[t].how = "prepare"
                       /\ prepared[t].serialisation_list # <<>>
                       /\ views[t].low_limit_no < views[t].low_limit_id
                       /\ prepared[0].from = views[t]

-----------------------------------------------------------------------------
(* Further properties of the rollinclude walker (WalkSpec) *)

TimesPinned(b) == Cardinality({i \in 1 .. Len(Pinned) : Pinned[i] = b})

\* C29 (as claimed): over a well-formed chain the walk returns having pinned each of the
\* num_nodes nodes exactly once; the node spilled_head is met exactly once, it is the last
\* node visited, its sequence is 0 and its previous is NONE
C29_WalkPinsEveryNodeOnce ==
    Returned =>
        /\ Len(Pinned) = last.num_nodes
        /\ \A b \in DOMAIN rollback_logs : TimesPinned(b) = 1
        /\ Pinned[Len(Pinned)] = last.spilled_head
        /\ rollback_logs[last.spilled_head].sequence = 0
        /\ rollback_logs[last.spilled_head].previous = ROLLBACK_NONE

\* C29: over a well-formed chain the walk returns and has pinned no node twice.  The nodes
\* it pinned are those from spilled_tail down to the node it stopped at.  When it returns 0
\* that is every node of the chain, and spilled_head is the last of them, with sequence 0
\* and previous NONE.  When it returns the error of an entry function it stopped at the
\* node of that entry: the older nodes were not pinned at all, and spilled_head was met
\* only if it is that node
C29_WalkPinsEveryNodeOnceUnlessStopped ==
    Returned =>
        /\ Len(Pinned) >= 1
        /\ \A b \in DOMAIN rollback_logs : TimesPinned(b) <= 1
        /\ LET stopped == Pinned[Len(Pinned)]
           IN  /\ \A b \in DOMAIN rollback_logs :
                     TimesPinned(b) = 1 <=>
                         rollback_logs[b].sequence >= rollback_logs[stopped].sequence
               /\ ret = 0 =>
                     /\ Len(Pinned) = last.num_nodes
                     /\ stopped = last.spilled_head
                     /\ rollback_logs[stopped].sequence = 0
                     /\ rollback_logs[stopped].previous = ROLLBACK_NONE
               /\ (ret # 0 /\ TimesPinned(last.spilled_head) = 1) => stopped = last.spilled_head

\* A walk over two nodes that returned 0: the tail, then the head, items applied from both
C29_Witness ==
    /\ Returned /\ ret = 0
    /\ last.num_nodes = 2
    /\ Pinned = <<last.spilled_tail, last.spilled_head>>
    /\ last.spilled_tail # last.spilled_head
    /\ Len(applied) >= 2
    /\ \A b \in DOMAIN rollback_logs : rollback_logs[b].removed = 1

-----------------------------------------------------------------------------
(* ReadView::ids_t from its construction on: reserve, push_back, insert and assign *)

\* ReadView::ids_t::push_back: reserve(size() * 2) when capacity() <= size(), then
\* m_ptr[m_size++] = value.  outside: the slot written is not within the capacity
ids_t_push_back(v, value) ==
    LET grown == IF v.reserved <= Len(v.ids) THEN ids_t_reserve(v, Len(v.ids) * 2) ELSE v
    IN  [ids |-> Append(grown.ids, value),
         reserved |-> grown.reserved,
         outside |-> Len(grown.ids) >= grown.reserved]

\* ReadView::ids_t::assign: clear(), reserve(n), resize(n), then the n elements copied in
ids_t_assign(v, start) ==
    LET cleared == [ids |-> <<>>, reserved |-> v.reserved]
        grown == ids_t_reserve(cleared, Len(start))
    IN  [ids |-> start, reserved |-> grown.reserved]

\* The sizes reserve is asked for, and the lengths of the arrays assign copies from
ReserveSizes == {0, 1, MIN_TRX_IDS, MIN_TRX_IDS + 1}

AssignSizes == {0, 1, MIN_TRX_IDS, MIN_TRX_IDS + 1}

\* The array right after its construction: no storage, no elements
IdsInit ==
    /\ TraAtRest
    /\ MvccAtRest
    /\ VecAtRest

\* The array is there to be called: no write has gone astray and the process lives
IdsReady == ~crashed /\ ~outside

ids_reserve ==
    \E n \in ReserveSizes :
        /\ IdsReady
        /\ LET v == ids_t_reserve([ids |-> m_ids, reserved |-> m_reserved], n)
           IN  /\ m_ids' = v.ids
               /\ m_reserved' = v.reserved
        /\ UNCHANGED <<traVars, mvccVars, ids_start, inserted, outside>>

\* A write through m_ptr beyond the capacity is undefined: the process faults on it, or
\* goes on with an element counted that the array has no room for
ids_push_back ==
    \E value \in Vals :
        /\ IdsReady
        /\ Len(inserted) < MaxIds
        /\ inserted' = Append(inserted, value)
        /\ LET v == ids_t_push_back([ids |-> m_ids, reserved |-> m_reserved], value)
           IN  IF v.outside
               THEN /\ outside' = TRUE
                    /\ m_reserved' = v.reserved
                    /\ \/ crashed' = TRUE /\ m_ids' = m_ids
                       \/ crashed' = crashed /\ m_ids' = v.ids
                    /\ UNCHANGED <<txn, fsynced_lsn, cachefiles, fts, rollback_logs, calls,
                                   applied, ret, last, mvccVars, ids_start>>
               ELSE /\ m_ids' = v.ids
                    /\ m_reserved' = v.reserved
                    /\ UNCHANGED <<traVars, mvccVars, ids_start, outside>>

ids_insert ==
    \E value \in Vals :
        /\ IdsReady
        /\ Len(inserted) < MaxIds
        /\ inserted' = Append(inserted, value)
        /\ LET v == ids_t_insert([ids |-> m_ids, reserved |-> m_reserved], value)
           IN  /\ m_ids' = v.ids
               /\ m_reserved' = v.reserved
        /\ UNCHANGED <<traVars, mvccVars, ids_start, outside>>

ids_assign ==
    \E n \in AssignSizes :
        /\ IdsReady
        /\ LET v == ids_t_assign([ids |-> m_ids, reserved |-> m_reserved], [i \in 1 .. n |-> i])
           IN  /\ m_ids' = v.ids
               /\ m_reserved' = v.reserved
        /\ UNCHANGED <<traVars, mvccVars, ids_start, inserted, outside>>

IdsNext ==
    \/ ids_reserve
    \/ ids_push_back
    \/ ids_insert
    \/ ids_assign

IdsSpec == IdsInit /\ [][IdsNext]_vars

\* C31 (as claimed): after any sequence of reserve, push_back, insert and assign on an
\* array constructed with capacity 0, size() <= capacity() and every write is within the
\* reserved storage: push_back on a full array, or on one of capacity 0, grows it first
C31_SizeWithinCapacity ==
    /\ Len(m_ids) <= m_reserved
    /\ ~outside

\* What does hold: the size is within the capacity for as long as push_back is not called
\* on an array of capacity 0, and a full array with storage is grown by push_back
SizeWithinCapacityUnlessNoStorage ==
    /\ [](~outside => Len(m_ids) <= m_reserved)
    /\ [][(outside' /\ ~outside) => (m_reserved = 0 /\ m_ids = <<>>)]_vars
    /\ [][(m_reserved > 0 /\ Len(m_ids) = m_reserved /\ Len(m_ids') = Len(m_ids) + 1) =>
              (m_reserved' >= Len(m_ids') /\ ~outside')]_vars

\* push_back on a full array with storage: the capacity doubled
FullArrayGrown == Len(m_ids) = MIN_TRX_IDS + 1 /\ m_reserved = 2 * MIN_TRX_IDS /\ ~outside
====
